---- MODULE Spec2Model ----
(***************************************************************************)
(* A model of the geometry core of Stack+ (src/polygons.py) and of the     *)
(* frame loop of its game page (src/stackplus.py, gamePage).               *)
(*                                                                         *)
(* Geometry is exact integer geometry on a lattice.  One lattice step is   *)
(* half a source unit, so the unit square of the shape data is the 2 x 2   *)
(* lattice square.  A polygon is its exterior ring, the way shapely keeps  *)
(* it: a sequence of points <<x, y>> whose last point repeats the first,   *)
(* or the empty sequence for POLYGON EMPTY.  The polygons that are         *)
(* intersected are rectilinear and their poses are lattice translations    *)
(* and right-angle turns, so every ring stays on the lattice and the       *)
(* boolean intersection can be computed exactly on unit cells.             *)
(*                                                                         *)
(* GeomSpec runs one call of a function of polygons.py on bounded inputs;  *)
(* Spec runs gamePage from its set-up to its return.                       *)
(***************************************************************************)
EXTENDS Integers, Sequences, FiniteSets, TLC

VARIABLES
    overlay,    \* the overlay library's conventions, fixed for a run
    fn,         \* the function being called
    args,       \* its arguments
    raw,        \* andPolygons: the raw result of shapely.intersection
    ret,        \* what the call returned or raised; Pending before it ran
    \* stackplus.py, module level
    running, pageNum, lastPage,
    storedHigh, \* the stored high score of the shape being played
    \* gamePage
    pc,         \* where gamePage is: its frame loop, a nested screen, returned
    gameShape, control, forward, controlX, controlY, controlTheta,
    thetaOffset, pt, colIndex, tower, towerBase, stack, lives, timer,
    score, highScore, clicked, paused, gameover, dt,
    newHigh,    \* gameover(): whether the score beat the stored high score
    calls,      \* how often gamePage has called each function of polygons.py
    events,     \* what pygame.event.get() handed to the last iteration
    passed,     \* the matrices the last iteration handed to spacialTransform
    colors,     \* the indices into blockColors: what the last frame drew the
                \* control block and the layers in, and for each layer of the
                \* tower what the control block was drawn in when it was stacked
    \* render.py
    modelview,  \* OpenGL's modelview matrix and the matrices saved under it
    \* a Button or CycleButton of stackplus.py on its own
    button,
    seen        \* what its updates have seen of the mouse, and how often the
                \* timer's warning was heard since it last began to run

geomVars == <<overlay, fn, args, raw, ret>>
pageVars == <<running, pageNum, lastPage, storedHigh>>
gameVars == <<pc, gameShape, control, forward, controlX, controlY, controlTheta,
              thetaOffset, pt, colIndex, tower, towerBase, stack, lives, timer,
              score, highScore, clicked, paused, gameover, dt, newHigh, calls,
              events, passed, colors>>
unitVars == <<button, seen>>
vars     == <<geomVars, pageVars, gameVars, modelview, unitVars>>

(***************************************************************************)
(* Python and numpy helpers                                                *)
(***************************************************************************)

X(p) == p[1]
Y(p) == p[2]

Min2(a, b) == IF a < b THEN a ELSE b
Max2(a, b) == IF a > b THEN a ELSE b

MinOf(S) == CHOOSE m \in S : \A n \in S : m <= n
MaxOf(S) == CHOOSE m \in S : \A n \in S : m >= n

\* Python's lst[:n]
sliceTo(lst, n) ==
    IF n >= 0 THEN SubSeq(lst, 1, Min2(n, Len(lst)))
    ELSE SubSeq(lst, 1, Max2(Len(lst) + n, 0))

\* Python's lst[::-1]
reversed(lst) == [i \in 1..Len(lst) |-> lst[Len(lst) + 1 - i]]

RECURSIVE SumTo(_, _)
SumTo(f, n) == IF n <= 0 THEN 0 ELSE f[n] + SumTo(f, n - 1)

(***************************************************************************)
(* The shapely operations the code calls                                   *)
(***************************************************************************)

EmptyPolygon == << >>

\* shapely.Polygon(coords): an empty shell gives POLYGON EMPTY, an open
\* coordinate list is closed by repeating its first point.
Polygon(coords) ==
    IF Len(coords) = 0 THEN EmptyPolygon
    ELSE IF coords[Len(coords)] = coords[1] THEN coords
    ELSE Append(coords, coords[1])

\* polygon.exterior, shapely.get_coordinates, shapely.count_coordinates
exterior(polygon) == polygon
get_coordinates(geom) == geom
count_coordinates(geom) == Len(geom)

\* Twice the signed area of a closed ring (shoelace); positive for a
\* counter-clockwise ring.
SignedArea2(ring) ==
    SumTo([i \in 1..(Len(ring) - 1) |->
              X(ring[i]) * Y(ring[i + 1]) - X(ring[i + 1]) * Y(ring[i])],
          Len(ring) - 1)

Area2(ring) == IF SignedArea2(ring) < 0 THEN -SignedArea2(ring) ELSE SignedArea2(ring)

\* Orientation index of q relative to the directed line p1 -> p2:
\* 1 left (counter-clockwise), -1 right, 0 collinear.
orientationIndex(p1, p2, q) ==
    LET d == (X(p2) - X(p1)) * (Y(q) - Y(p1)) - (Y(p2) - Y(p1)) * (X(q) - X(p1))
    IN IF d > 0 THEN 1 ELSE IF d < 0 THEN -1 ELSE 0

\* ring.is_ccw, as GEOS computes it (Orientation::isCCW): ring[i] is written
\* ring[i + 1] here, sequences being 1-based.  The scan finds the highest
\* point that ends a rising segment, then the next lower point; a pointed
\* cap is decided by the orientation index, a flat cap by its direction.
RECURSIVE upHiScan(_, _, _)
upHiScan(ring, i, iUpHi) ==
    IF i > Len(ring) - 1 THEN iUpHi
    ELSE IF Y(ring[i + 1]) > Y(ring[i]) /\ Y(ring[i + 1]) >= Y(ring[iUpHi + 1])
         THEN upHiScan(ring, i + 1, i)
         ELSE upHiScan(ring, i + 1, iUpHi)

RECURSIVE downLowScan(_, _, _)
downLowScan(ring, iUpHi, i) ==
    LET nPts == Len(ring) - 1
        nxt == (i + 1) % nPts
    IN IF nxt # iUpHi /\ Y(ring[nxt + 1]) = Y(ring[iUpHi + 1])
       THEN downLowScan(ring, iUpHi, nxt)
       ELSE nxt

is_ccw(ring) ==
    LET nPts == Len(ring) - 1 IN
    IF nPts < 3 THEN FALSE
    ELSE
    LET iUpHi == upHiScan(ring, 1, 0) IN
    IF iUpHi = 0 THEN FALSE
    ELSE
    LET upHiPt    == ring[iUpHi + 1]
        upLowPt   == ring[iUpHi]
        iDownLow  == downLowScan(ring, iUpHi, iUpHi)
        downLowPt == ring[iDownLow + 1]
        iDownHi   == IF iDownLow > 0 THEN iDownLow - 1 ELSE nPts - 1
        downHiPt  == ring[iDownHi + 1]
    IN IF upHiPt = downHiPt
       THEN IF upLowPt = upHiPt \/ downLowPt = upHiPt \/ upLowPt = downLowPt
            THEN FALSE
            ELSE orientationIndex(upLowPt, upHiPt, downLowPt) = 1
       ELSE X(downHiPt) - X(upHiPt) < 0

\* ring.reverse()
reverse(ring) == reversed(ring)

(***************************************************************************)
(* polygons.py                                                             *)
(***************************************************************************)

\* A mutant: the test of the winding is inverted.
forceCCW_inverted(polygon) ==
    IF is_ccw(exterior(polygon)) THEN Polygon(reverse(exterior(polygon))) ELSE polygon

\* __forceCCW
forceCCW(polygon) ==
    IF ~is_ccw(exterior(polygon)) THEN Polygon(reverse(exterior(polygon))) ELSE polygon

\* The shape data (res/shapes.json): name -> list of [x, y] pairs, open
\* rings of either winding.  "square" is the unit square and "ell" the
\* L-shaped hexagon, in lattice steps; "pi" has two legs of unequal width,
\* "cee" two prongs of equal width; "triangle" and "caret" have slanted
\* edges.
shapes ==
    [ triangle  |-> << <<0,0>>, <<4,0>>, <<2,3>> >>,
      caret     |-> << <<0,0>>, <<2,3>>, <<4,0>>, <<2,1>> >>,
      square    |-> << <<0,0>>, <<2,0>>, <<2,2>>, <<0,2>> >>,
      rectangle |-> << <<0,0>>, <<0,2>>, <<3,2>>, <<3,0>> >>,
      ell       |-> << <<0,0>>, <<4,0>>, <<4,2>>, <<2,2>>, <<2,4>>, <<0,4>> >>,
      pi        |-> << <<0,0>>, <<0,3>>, <<4,3>>, <<4,0>>, <<2,0>>, <<2,2>>,
                       <<1,2>>, <<1,0>> >>,
      cee       |-> << <<0,0>>, <<3,0>>, <<3,2>>, <<2,2>>, <<2,1>>, <<1,1>>,
                       <<1,2>>, <<0,2>> >> ]

\* allShapes
allShapes == DOMAIN shapes

\* the shapes whose edges all run along the lattice
latticeShapes == {"square", "rectangle", "ell", "pi", "cee"}

\* get, for a name of the data
get(shapeName) == forceCCW(Polygon(shapes[shapeName]))

(***************************************************************************)
(* polygon.convex_hull and shapely.equals                                  *)
(***************************************************************************)

LexLess(p, q) == X(p) < X(q) \/ (X(p) = X(q) /\ Y(p) < Y(q))
LexMin(S) == CHOOSE p \in S : \A q \in S : p = q \/ LexLess(p, q)

PointsOf(ring) == {ring[i] : i \in DOMAIN ring}

\* c lies on the closed segment a-b (c collinear with a, b)
Between(a, b, c) ==
    /\ Min2(X(a), X(b)) <= X(c) /\ X(c) <= Max2(X(a), X(b))
    /\ Min2(Y(a), Y(b)) <= Y(c) /\ Y(c) <= Max2(Y(a), Y(b))

\* a -> b is an edge of the counter-clockwise hull boundary of V
IsHullEdge(V, a, b) ==
    /\ a # b
    /\ \A c \in V : \/ orientationIndex(a, b, c) = 1
                    \/ orientationIndex(a, b, c) = 0 /\ Between(a, b, c)

\* follow the successor relation succ from cur until start comes back
RECURSIVE chainFrom(_, _, _, _)
chainFrom(succ, start, cur, acc) ==
    LET nxt == succ[cur] IN
    IF nxt = start \/ Len(acc) > Cardinality(DOMAIN succ)
    THEN Append(acc, start)
    ELSE chainFrom(succ, start, nxt, Append(acc, nxt))

\* polygon.convex_hull: the hull polygon's ring; empty when the points
\* span no area
convex_hull(polygon) ==
    LET V == PointsOf(polygon)
        H == {a \in V : \E b \in V : IsHullEdge(V, a, b)}
    IN IF Cardinality(H) < 3 THEN EmptyPolygon
       ELSE LET succ == [a \in H |-> CHOOSE b \in V : IsHullEdge(V, a, b)]
                start == LexMin(H)
            IN chainFrom(succ, start, start, <<start>>)

\* The canonical ring of a simple polygon: closing point dropped, vertices
\* that are no corners dropped, counter-clockwise, starting at the lowest
\* leftmost corner.
RECURSIVE corners(_, _)
corners(pts, i) ==
    IF i > Len(pts) THEN << >>
    ELSE LET n    == Len(pts)
             prev == pts[((i - 2) % n) + 1]
             next == pts[(i % n) + 1]
         IN IF orientationIndex(prev, pts[i], next) = 0
            THEN corners(pts, i + 1)
            ELSE <<pts[i]>> \o corners(pts, i + 1)

rotateTo(pts, k) == [i \in 1..Len(pts) |-> pts[((i + k - 2) % Len(pts)) + 1]]

canonical(ring) ==
    IF Len(ring) = 0 THEN << >>
    ELSE LET open == sliceTo(ring, Len(ring) - 1)
             ccw  == IF SignedArea2(ring) < 0 THEN reversed(open) ELSE open
             cs   == corners(ccw, 1)
         IN IF Len(cs) = 0 THEN << >>
            ELSE LET k == CHOOSE i \in 1..Len(cs) : cs[i] = LexMin(PointsOf(cs))
                 IN rotateTo(cs, k)

\* shapely.equals(a, b) for simple polygons: the same point set, that is
\* the same canonical ring; two empty geometries are equal.
equals(a, b) == canonical(a) = canonical(b)

(***************************************************************************)
(* extrude                                                                 *)
(***************************************************************************)

\* The loop variable i of the source runs over range(num); here k = i + 1
\* runs over 1..num, the positions of a TLA+ sequence.

\* A mutant: the closing point is not removed from the count.
extrudeNum_closing_kept(polygon) == count_coordinates(exterior(polygon))

\* num: the number of vertices, the closing duplicate removed
extrudeNum(polygon) == count_coordinates(exterior(polygon)) - 1

\* A mutant: the bottom ring is emitted in the source order.
extrudeVertices_bottom_unreversed(exteriorL, depth) ==
    [i \in 1..Len(exteriorL) |-> <<X(exteriorL[i]), Y(exteriorL[i]), 0>>]
    \o [i \in 1..Len(exteriorL) |-> <<X(exteriorL[i]), Y(exteriorL[i]), depth>>]

\* "vertices": the bottom ring reversed at z = 0, then the top ring
extrudeVertices(exteriorL, depth) ==
    [i \in 1..Len(exteriorL) |->
        <<X(reversed(exteriorL)[i]), Y(reversed(exteriorL)[i]), 0>>]
    \o [i \in 1..Len(exteriorL) |-> <<X(exteriorL[i]), Y(exteriorL[i]), depth>>]

\* A mutant: a side line joins bottom index i to top index i + num.
extrudeLines_sides_unmirrored(num) ==
    [k \in 1..num |-> <<k - 1, (k - 2) % num>>]
    \o [k \in 1..num |-> <<k - 1 + num, ((k - 2) % num) + num>>]
    \o [k \in 1..num |-> <<k - 1, (k - 1) + num>>]

\* "lines": bottom ring, top ring, sides
extrudeLines(num) ==
    [k \in 1..num |-> <<k - 1, (k - 2) % num>>]
    \o [k \in 1..num |-> <<k - 1 + num, ((k - 2) % num) + num>>]
    \o [k \in 1..num |-> <<k - 1, -(k - 1) + (2 * num - 1)>>]

\* A mutant: no base is emitted when there is no vertex.
extrudeBases_none_when_empty(num) ==
    IF num <= 0 THEN << >>
    ELSE << [k \in 1..num |-> k - 1] >> \o << [k \in 1..num |-> k - 1 + num] >>

\* "bases": the bottom and the top index tuple
extrudeBases(num) ==
    << [k \in 1..num |-> k - 1] >> \o << [k \in 1..num |-> k - 1 + num] >>

\* A mutant: the top right index is not mirrored (i % num for -i % num).
extrudeQuads_top_unmirrored(num) ==
    [k \in 1..num |->
        << k - 1, (k - 2) % num, ((k - 1) % num) + num, ((-(k - 1) - 1) % num) + num >>]

\* "quads": BL, BR, TR, TL
extrudeQuads(num) ==
    [k \in 1..num |->
        << k - 1, (k - 2) % num, (-(k - 1) % num) + num, ((-(k - 1) - 1) % num) + num >>]

\* polygon.envelope: the bounding rectangle
envelope(polygon) ==
    IF Len(polygon) = 0 THEN EmptyPolygon
    ELSE LET xs == {X(polygon[k]) : k \in DOMAIN polygon}
             ys == {Y(polygon[k]) : k \in DOMAIN polygon}
         IN << <<MinOf(xs), MinOf(ys)>>, <<MaxOf(xs), MinOf(ys)>>, <<MaxOf(xs), MaxOf(ys)>>,
               <<MinOf(xs), MaxOf(ys)>>, <<MinOf(xs), MinOf(ys)>> >>

\* A mutant: the polygon is compared with its bounding rectangle.
extrudeIsConvex_envelope(polygon) == equals(polygon, envelope(polygon))

\* "isConvex"
extrudeIsConvex(polygon) == equals(polygon, convex_hull(polygon))

\* extrude
extrude(polygon0, depth) ==
    LET polygon   == forceCCW(polygon0)
        num       == extrudeNum(polygon)
        exteriorL == sliceTo(get_coordinates(exterior(polygon)), num)
    IN [ polygon  |-> polygon,
         vertices |-> extrudeVertices(exteriorL, depth),
         lines    |-> extrudeLines(num),
         bases    |-> extrudeBases(num),
         quads    |-> extrudeQuads(num),
         isConvex |-> extrudeIsConvex(polygon) ]

(***************************************************************************)
(* spacialTransform                                                        *)
(***************************************************************************)

\* A mutant: the two kept components change places.
spacialTransform_yx_kept(polygon, transformMat) ==
    LET points == get_coordinates(polygon)
        hom    == [i \in 1..Len(points) |-> <<X(points[i]), Y(points[i]), 0, 1>>]
        prod   == [i \in 1..Len(hom) |->
                     [c \in 1..4 |->
                         hom[i][1] * transformMat[1][c] + hom[i][2] * transformMat[2][c]
                       + hom[i][3] * transformMat[3][c] + hom[i][4] * transformMat[4][c]]]
    IN forceCCW(Polygon([i \in 1..Len(prod) |-> <<prod[i][2], prod[i][1]>>]))

\* A mutant: the points are homogenized to (x, y, 1, 1).
spacialTransform_z_one(polygon, transformMat) ==
    LET points == get_coordinates(polygon)
        hom    == [i \in 1..Len(points) |-> <<X(points[i]), Y(points[i]), 1, 1>>]
        prod   == [i \in 1..Len(hom) |->
                     [c \in 1..4 |->
                         hom[i][1] * transformMat[1][c] + hom[i][2] * transformMat[2][c]
                       + hom[i][3] * transformMat[3][c] + hom[i][4] * transformMat[4][c]]]
    IN forceCCW(Polygon([i \in 1..Len(prod) |-> <<prod[i][1], prod[i][2]>>]))

\* spacialTransform: each point (x, y) becomes the first two components of
\* the row vector (x, y, 0, 1) times the matrix.
spacialTransform(polygon, transformMat) ==
    LET points == get_coordinates(polygon)
        hom    == [i \in 1..Len(points) |-> <<X(points[i]), Y(points[i]), 0, 1>>]
        prod   == [i \in 1..Len(hom) |->
                     [c \in 1..4 |->
                         hom[i][1] * transformMat[1][c] + hom[i][2] * transformMat[2][c]
                       + hom[i][3] * transformMat[3][c] + hom[i][4] * transformMat[4][c]]]
    IN forceCCW(Polygon([i \in 1..Len(prod) |-> <<prod[i][1], prod[i][2]>>]))

(***************************************************************************)
(* shapely.intersection(a, b, grid_size = 0.05) on lattice polygons.       *)
(* The rings are rectilinear with lattice corners, every corner is a point *)
(* of the 0.05 grid, and the point set of the intersection is a union of   *)
(* closed unit cells, unit edges and lattice points.  The result is built  *)
(* the way the overlay builds it: the areas as polygons, then what the two *)
(* polygons share outside these areas as lines and as points.              *)
(***************************************************************************)

\* The unit cells <<i, j>> = [i, i+1] x [j, j+1] inside a ring: the ray from
\* the cell's centre to the right crosses an odd number of vertical edges.
Cells(ring) ==
    IF Len(ring) = 0 THEN {}
    ELSE LET xs == {X(ring[k]) : k \in DOMAIN ring}
             ys == {Y(ring[k]) : k \in DOMAIN ring}
             crossings(i, j) ==
                 {k \in 1..(Len(ring) - 1) :
                     /\ X(ring[k]) = X(ring[k + 1])
                     /\ X(ring[k]) > i
                     /\ Min2(Y(ring[k]), Y(ring[k + 1])) <= j
                     /\ j < Max2(Y(ring[k]), Y(ring[k + 1]))}
         IN {c \in (MinOf(xs)..(MaxOf(xs) - 1)) \X (MinOf(ys)..(MaxOf(ys) - 1)) :
                Cardinality(crossings(c[1], c[2])) % 2 = 1}

cellVerts(c) == { <<c[1], c[2]>>, <<c[1] + 1, c[2]>>,
                  <<c[1] + 1, c[2] + 1>>, <<c[1], c[2] + 1>> }
cellEdges(c) == { {<<c[1], c[2]>>, <<c[1] + 1, c[2]>>},
                  {<<c[1] + 1, c[2]>>, <<c[1] + 1, c[2] + 1>>},
                  {<<c[1] + 1, c[2] + 1>>, <<c[1], c[2] + 1>>},
                  {<<c[1], c[2] + 1>>, <<c[1], c[2]>>} }
VertsOf(S) == UNION {cellVerts(c) : c \in S}
EdgesOf(S) == UNION {cellEdges(c) : c \in S}

\* The connected component of C in S.  The members of S are sets of lattice
\* points (a cell's four corners, a unit edge's two ends); two of them are
\* joined when they share at least k points: k = 2 joins cells across an
\* edge, k = 1 joins unit edges at an end.
RECURSIVE grow(_, _, _)
grow(S, C, k) ==
    LET N == {c \in S \ C : \E d \in C : Cardinality(c \cap d) >= k}
    IN IF N = {} THEN C ELSE grow(S, C \cup N, k)

\* the edge-connected components of a set of cells
cellComponents(S) ==
    LET VS == {cellVerts(c) : c \in S}
    IN {{c \in S : cellVerts(c) \in comp} : comp \in {grow(VS, {v}, 2) : v \in VS}}

\* the connected components of a set of unit edges
edgeComponents(E) == {grow(E, {e}, 1) : e \in E}

\* A mutant: the ring keeps every lattice point of the boundary, not only
\* its corners.
boundaryRing_every_point(S) ==
    LET dir == { <<<<c[1], c[2]>>, <<c[1] + 1, c[2]>>>> :
                    c \in {d \in S : <<d[1], d[2] - 1>> \notin S} }
          \cup { <<<<c[1] + 1, c[2]>>, <<c[1] + 1, c[2] + 1>>>> :
                    c \in {d \in S : <<d[1] + 1, d[2]>> \notin S} }
          \cup { <<<<c[1] + 1, c[2] + 1>>, <<c[1], c[2] + 1>>>> :
                    c \in {d \in S : <<d[1], d[2] + 1>> \notin S} }
          \cup { <<<<c[1], c[2] + 1>>, <<c[1], c[2]>>>> :
                    c \in {d \in S : <<d[1] - 1, d[2]>> \notin S} }
        from  == {e[1] : e \in dir}
        succ  == [v \in from |-> (CHOOSE e \in dir : e[1] = v)[2]]
        start == LexMin(from)
    IN chainFrom(succ, start, start, <<start>>)

\* The counter-clockwise boundary ring of an edge-connected set of cells
\* without holes, corners only, starting at its lowest leftmost corner.
boundaryRing(S) ==
    LET dir == { <<<<c[1], c[2]>>, <<c[1] + 1, c[2]>>>> :
                    c \in {d \in S : <<d[1], d[2] - 1>> \notin S} }
          \cup { <<<<c[1] + 1, c[2]>>, <<c[1] + 1, c[2] + 1>>>> :
                    c \in {d \in S : <<d[1] + 1, d[2]>> \notin S} }
          \cup { <<<<c[1] + 1, c[2] + 1>>, <<c[1], c[2] + 1>>>> :
                    c \in {d \in S : <<d[1], d[2] + 1>> \notin S} }
          \cup { <<<<c[1], c[2] + 1>>, <<c[1], c[2]>>>> :
                    c \in {d \in S : <<d[1] - 1, d[2]>> \notin S} }
        from  == {e[1] : e \in dir}
        succ  == [v \in from |-> (CHOOSE e \in dir : e[1] = v)[2]]
        start == LexMin(from)
        full  == chainFrom(succ, start, start, <<start>>)
        cs    == corners(sliceTo(full, Len(full) - 1), 1)
    IN Append(cs, cs[1])

\* a set of points or of cells as a sequence, lowest leftmost first
RECURSIVE sortPoints(_)
sortPoints(S) ==
    IF S = {} THEN << >>
    ELSE <<LexMin(S)>> \o sortPoints(S \ {LexMin(S)})

\* disjoint sets of points or cells as a sequence, ordered by their lowest
\* leftmost member
RECURSIVE sortSets(_)
sortSets(SS) ==
    IF SS = {} THEN << >>
    ELSE LET first == CHOOSE s \in SS : \A t \in SS : s = t \/ LexLess(LexMin(s), LexMin(t))
         IN <<first>> \o sortSets(SS \ {first})

PolygonGeom(ring)   == [type |-> "Polygon", coords |-> ring]
LineGeom(points)    == [type |-> "LineString", coords |-> points]
PointGeom(point)    == [type |-> "Point", coords |-> <<point>>]
Collection(t, gs)   == [type |-> t, geoms |-> gs]

isPolygon(g) == g.type = "Polygon"

\* geom.area: twice it, in lattice cells; lines and points have none
area2(g) == IF isPolygon(g) THEN Area2(g.coords) ELSE 0

\* A mutant: the overlay hands out the bounding box of its first operand.
intersection_bounding_box(a, b) == PolygonGeom(envelope(a))

\* shapely.intersection.  Which end of a collection comes first and which
\* way a result shell winds are the library's business: overlay.reversed
\* and overlay.shellCW stand for these conventions.
intersection(a, b) ==
    LET A      == Cells(a)
        B      == Cells(b)
        I      == A \cap B
        shell(S) == IF overlay.shellCW THEN reverse(boundaryRing(S)) ELSE boundaryRing(S)
        comps  == sortSets(cellComponents(I))
        polys  == [k \in 1..Len(comps) |-> PolygonGeom(shell(comps[k]))]
        L      == (EdgesOf(A) \cap EdgesOf(B)) \ EdgesOf(I)
        lcomps == sortSets({UNION comp : comp \in edgeComponents(L)})
        lines  == [k \in 1..Len(lcomps) |-> LineGeom(sortPoints(lcomps[k]))]
        P      == (VertsOf(A) \cap VertsOf(B)) \ (VertsOf(I) \cup UNION L)
        pts    == sortPoints(P)
        points == [k \in 1..Len(pts) |-> PointGeom(pts[k])]
        all    == polys \o lines \o points
        geoms  == IF overlay.reversed THEN reversed(all) ELSE all
    IN IF Len(all) = 0 THEN PolygonGeom(EmptyPolygon)
       ELSE IF Len(all) = 1 THEN all[1]
       ELSE IF Len(lines) = 0 /\ Len(points) = 0 THEN Collection("MultiPolygon", geoms)
       ELSE IF Len(polys) = 0 /\ Len(points) = 0 THEN Collection("MultiLineString", geoms)
       ELSE IF Len(polys) = 0 /\ Len(lines) = 0 THEN Collection("MultiPoint", geoms)
       ELSE Collection("GeometryCollection", geoms)

(***************************************************************************)
(* andPolygons                                                             *)
(***************************************************************************)

\* What a Python call does: it returns a value or raises an exception.
Return(v) == [exc |-> "none", val |-> v]
Raise(e)  == [exc |-> e, val |-> << >>]

\* result.geoms: only the collection types have the attribute
getGeoms(g) ==
    IF g.type \in {"MultiPolygon", "MultiLineString", "MultiPoint", "GeometryCollection"}
    THEN Return(g.geoms)
    ELSE Raise("AttributeError")

\* A mutant: the loop keeps a later member of equal area (>= for >).
RECURSIVE largestOf_lastWins(_, _, _)
largestOf_lastWins(geoms, i, largest) ==
    IF i > Len(geoms) THEN largest
    ELSE IF isPolygon(geoms[i]) /\ area2(geoms[i]) >= area2(largest)
         THEN largestOf_lastWins(geoms, i + 1, geoms[i])
         ELSE largestOf_lastWins(geoms, i + 1, largest)

\* the loop "for p in result.geoms", from member i on
RECURSIVE largestOf(_, _, _)
largestOf(geoms, i, largest) ==
    IF i > Len(geoms) THEN largest
    ELSE IF isPolygon(geoms[i]) /\ area2(geoms[i]) > area2(largest)
         THEN largestOf(geoms, i + 1, geoms[i])
         ELSE largestOf(geoms, i + 1, largest)

\* A mutant: the except clause is missing, the AttributeError propagates.
andPolygonsOf_uncaught(result) ==
    IF ~isPolygon(result)
    THEN LET g == getGeoms(result) IN
         IF g.exc # "none" THEN Raise(g.exc)
         ELSE Return(forceCCW(largestOf(g.val, 1, PolygonGeom(EmptyPolygon)).coords))
    ELSE Return(forceCCW(result.coords))

\* A mutant: a result that is a single polygon is dropped for the empty one.
andPolygonsOf_single_dropped(result) ==
    IF ~isPolygon(result)
    THEN LET g == getGeoms(result) IN
         IF g.exc = "AttributeError" THEN Return(EmptyPolygon)
         ELSE IF g.exc # "none" THEN Raise(g.exc)
         ELSE Return(forceCCW(largestOf(g.val, 1, PolygonGeom(EmptyPolygon)).coords))
    ELSE Return(EmptyPolygon)

\* A mutant: the call remembers that it has run, and a second run on the
\* same raw intersection returns the empty polygon.
andPolygonsOf_second_run_empty(result) ==
    IF ret.exc # "pending" THEN Return(EmptyPolygon)
    ELSE IF ~isPolygon(result)
    THEN LET g == getGeoms(result) IN
         IF g.exc = "AttributeError" THEN Return(EmptyPolygon)
         ELSE IF g.exc # "none" THEN Raise(g.exc)
         ELSE Return(forceCCW(largestOf(g.val, 1, PolygonGeom(EmptyPolygon)).coords))
    ELSE Return(forceCCW(result.coords))

\* andPolygons, from the raw intersection on
andPolygonsOf(result) ==
    IF ~isPolygon(result)
    THEN LET g == getGeoms(result) IN
         IF g.exc = "AttributeError" THEN Return(EmptyPolygon)
         ELSE IF g.exc # "none" THEN Raise(g.exc)
         ELSE Return(forceCCW(largestOf(g.val, 1, PolygonGeom(EmptyPolygon)).coords))
    ELSE Return(forceCCW(result.coords))

andPolygons(polygon1, polygon2) == andPolygonsOf(intersection(polygon1, polygon2))

(***************************************************************************)
(* The functions of polygons.py on bounded inputs: the initial state holds *)
(* a call and its arguments, one step runs it.                             *)
(***************************************************************************)

MaxShift == 3
MaxDepth == 2
MaxEntry == 1

\* A mutant: a key the data lacks is answered with the square.
getitem_or_square(data, key) ==
    IF key \in DOMAIN data THEN Return(data[key]) ELSE Return(data["square"])

\* load(f)[shapeName]: the dictionary's entry, or KeyError
getitem(data, key) ==
    IF key \in DOMAIN data THEN Return(data[key]) ELSE Raise("KeyError")

\* get, from the look-up on: what the look-up raises leaves get uncaught
getOf(entry) ==
    IF entry.exc # "none" THEN Raise(entry.exc)
    ELSE Return(forceCCW(Polygon(entry.val)))

\* names that are no keys of the data
UnknownNames == {"hexagon", "Square", ""}

Pending == [exc |-> "pending", val |-> << >>]
NoGeom  == [type |-> "none"]

translate(coords, dx, dy) == [i \in 1..Len(coords) |-> <<X(coords[i]) + dx, Y(coords[i]) + dy>>]

\* The polygons a caller can hold: a shape of the data with either winding
\* and either of two starting corners, moved on the lattice.
RingsOf(names) ==
    { Polygon(IF w = 0 THEN rotateTo(shapes[n], k) ELSE reversed(rotateTo(shapes[n], k))) :
        n \in names, w \in 0..1, k \in 1..2 }

InputRings   == RingsOf(allShapes)
LatticeRings == RingsOf(latticeShapes)

Shifts == (-MaxShift..MaxShift) \X (-MaxShift..MaxShift)

\* 4 x 4 matrices with any x-y block over -MaxEntry..MaxEntry and a
\* translation row; (x, y, 0, 1) multiplies them from the left.  The poses
\* of render.getMatrix have f = 0; f = 1 fills the third row and the last
\* two columns, as other callers' matrices may.  t is <<dx, dy, dz, f>>.
matrixOf(a, b, c, d, t) ==
    << <<a, b, t[4], -t[4]>>, <<c, d, -t[4], t[4]>>, <<2 * t[4], -t[4], 1, t[4]>>,
       <<t[1], t[2], t[3], 1 + t[4]>> >>

Translations == {<<0, 0, 0, 0>>, <<1, -2, -1, 0>>, <<1, -2, 2, 1>>}

Matrices ==
    { matrixOf(a, b, c, d, t) :
        a \in -MaxEntry..MaxEntry, b \in -MaxEntry..MaxEntry,
        c \in -MaxEntry..MaxEntry, d \in -MaxEntry..MaxEntry,
        t \in Translations }

det2(m) == m[1][1] * m[2][2] - m[1][2] * m[2][1]

\* nothing has been seen or heard
NoSight == [held |-> FALSE, warnings |-> 0]

\* no frame has been drawn
NoColors == [control |-> 0, layers |-> << >>, placed |-> << >>]

\* gamePage has not been entered: its locals but lives, timer and calls
NoGame ==
    /\ running = TRUE /\ pageNum = 0 /\ lastPage = 0 /\ storedHigh = 0
    /\ pc = "none" /\ gameShape = "none"
    /\ control = << >> /\ towerBase = << >> /\ tower = << >>
    /\ forward = TRUE /\ controlX = 0 /\ controlY = 0 /\ controlTheta = 0
    /\ thetaOffset = 0 /\ pt = 0 /\ colIndex = 0 /\ stack = 0
    /\ score = 0 /\ highScore = 0
    /\ clicked = FALSE /\ paused = FALSE /\ gameover = FALSE
    /\ dt = 0 /\ newHigh = FALSE /\ events = << >>
    /\ passed = << >>
    /\ colors = NoColors
    /\ modelview = [top |-> << >>, saved |-> << >>]

\* gamePage has not been entered
NoPage ==
    /\ NoGame
    /\ lives = << >> /\ timer = << >> /\ calls = << >>
    /\ button = << >> /\ seen = NoSight

\* A call with its arguments.  Only andPolygons goes through the overlay,
\* whose conventions are left open for it.
GeomInit ==
    /\ NoPage
    /\ raw = NoGeom
    /\ ret = Pending
    /\ \/ fn = "get" /\ args \in {<<n>> : n \in allShapes \cup UnknownNames}
            /\ overlay = [reversed |-> FALSE, shellCW |-> TRUE]
       \/ fn = "extrude"
            /\ args \in (InputRings \cup {EmptyPolygon}) \X (1..MaxDepth)
            /\ overlay = [reversed |-> FALSE, shellCW |-> TRUE]
       \/ fn = "spacialTransform"
            /\ args \in (InputRings \cup {EmptyPolygon}) \X Matrices
            /\ overlay = [reversed |-> FALSE, shellCW |-> TRUE]
       \/ fn = "andPolygons"
            /\ overlay \in [reversed : BOOLEAN, shellCW : BOOLEAN]
            /\ args \in { <<get(n), translate(q, d[1], d[2])>> :
                            n \in latticeShapes, q \in LatticeRings, d \in Shifts }

CallGet ==
    /\ fn = "get" /\ ret = Pending
    /\ ret' = getOf(getitem(shapes, args[1]))
    /\ UNCHANGED <<overlay, fn, args, raw>>
    /\ UNCHANGED <<pageVars, gameVars, modelview, unitVars>>

CallExtrude ==
    /\ fn = "extrude" /\ ret = Pending
    /\ ret' = Return(extrude(args[1], args[2]))
    /\ UNCHANGED <<overlay, fn, args, raw>>
    /\ UNCHANGED <<pageVars, gameVars, modelview, unitVars>>

CallSpacialTransform ==
    /\ fn = "spacialTransform" /\ ret = Pending
    /\ ret' = Return(spacialTransform(args[1], args[2]))
    /\ UNCHANGED <<overlay, fn, args, raw>>
    /\ UNCHANGED <<pageVars, gameVars, modelview, unitVars>>

CallAndPolygons ==
    /\ fn = "andPolygons" /\ ret = Pending
    /\ raw' = intersection(args[1], args[2])
    /\ ret' = andPolygonsOf(raw')
    /\ UNCHANGED <<overlay, fn, args>>
    /\ UNCHANGED <<pageVars, gameVars, modelview, unitVars>>

GeomNext == CallGet \/ CallExtrude \/ CallSpacialTransform \/ CallAndPolygons

GeomSpec == GeomInit /\ [][GeomNext]_vars

(***************************************************************************)
(* The game page (src/stackplus.py, gamePage) and what it calls.           *)
(*                                                                         *)
(* Lengths are in lattice steps (half a source unit).  Time is in ticks of *)
(* one sixteenth of the movement period (3.5 s / 16 = 0.21875 s), so the   *)
(* control block, which the movement function puts at                      *)
(* 4 * amp * |frac(pt / period - d) - 1/2| - amp, is on a lattice point in *)
(* every frame.  The timer bar is measured in 192nds of its height: its    *)
(* 6 s make 6 / 0.21875 = 192 / 7 ticks, so a tick adds 7 of them.         *)
(*                                                                         *)
(* A turn by 45 degrees does not keep the lattice.  The outlines of the    *)
(* shape data are therefore read on axes turned by shapeAxes = 45 degrees: *)
(* the outline the page starts with is the lattice ring of the catalogue   *)
(* turned clockwise by 45 degrees, the pose the base is shown in is that   *)
(* lattice ring itself, and every later outline, being an intersection in  *)
(* the scene, is on the scene's axes.  An angle handed to getMatrix is     *)
(* reduced by the axes of the outline the matrix is applied to, and the    *)
(* mouse is read where the remaining turn is a multiple of 90 degrees.     *)
(***************************************************************************)

width          == 960
amp            == 8
period         == 16
lifeNum        == 3
timerHeight    == 192
timerPerTick   == 7
blockColorsLen == 17
shapeAxes      == 45

Abs(n) == IF n < 0 THEN -n ELSE n

\* cos and sin of a multiple of 90 degrees
cosd(theta) == CASE theta % 360 = 0   -> 1
                 [] theta % 360 = 90  -> 0
                 [] theta % 360 = 180 -> -1
                 [] theta % 360 = 270 -> 0
sind(theta) == cosd(theta + 270)

\* render.getMatrix after render.reset() and setupScene(xtheta = 0): the
\* modelview matrix translate(dx, dy, dz) * rotate(theta about z), as
\* glGetDoublev hands it out (column after column).
getMatrix(dx, dy, dz, theta) ==
    << <<cosd(theta),  sind(theta), 0, 0>>,
       <<-sind(theta), cosd(theta), 0, 0>>,
       <<0, 0, 1, 0>>,
       <<dx, dy, dz, 1>> >>

\* the tilt setupScene gives the world unless it is told another
worldTilt == -45

\* render.init: the modelview matrix is the identity, nothing is saved.  A
\* matrix is held as the product it is, factor after factor; a factor that
\* is the identity matrix is not written down.
glInit == [top |-> << >>, saved |-> << >>]

glTranslated(gl, dx, dy, dz) ==
    IF dx = 0 /\ dy = 0 /\ dz = 0 THEN gl
    ELSE [gl EXCEPT !.top = Append(@, [op |-> "translate", angle |-> 0,
                                        x |-> dx, y |-> dy, z |-> dz])]

glRotated(gl, angle, ax, ay, az) ==
    IF angle % 360 = 0 THEN gl
    ELSE [gl EXCEPT !.top = Append(@, [op |-> "rotate", angle |-> angle % 360,
                                        x |-> ax, y |-> ay, z |-> az])]

glPushMatrix(gl) == [gl EXCEPT !.saved = Append(@, gl.top)]

glPopMatrix(gl) ==
    [top |-> gl.saved[Len(gl.saved)], saved |-> sliceTo(gl.saved, Len(gl.saved) - 1)]

\* A mutant: the modelview matrix is not flushed.
reset_matrix_kept(gl) == gl

\* render.reset, as far as the matrices go: glLoadIdentity
reset(gl) == [gl EXCEPT !.top = << >>]

\* render.setupScene: the world is tilted about the x axis
setupScene(gl, xtheta) == glRotated(gl, xtheta, 1, 0, 0)

\* render.drawPolygon, as far as the matrices go
drawPolygon(gl, dx, dy, dz, theta) ==
    glPopMatrix(glRotated(glTranslated(glPushMatrix(gl), dx, dy, dz), theta, 0, 0, 1))

\* "render rest of tower stack": layer i is drawn at height i - n
RECURSIVE drawLayers(_, _, _)
drawLayers(gl, i, n) ==
    IF i >= n THEN gl ELSE drawLayers(drawPolygon(gl, 0, 0, i - n, 0), i + 1, n)

\* A mutant: the matrix saved by getMatrix is left on the stack.
renderGetMatrix_not_popped(gl, dx, dy, dz, theta) ==
    LET moved == glRotated(glTranslated(glPushMatrix(gl), dx, dy, dz), theta, 0, 0, 1)
    IN  [mat |-> moved.top, gl |-> moved]

\* render.getMatrix on the modelview matrix as it is: the matrix read by
\* glGetDoublev, and what the call leaves behind
renderGetMatrix(gl, dx, dy, dz, theta) ==
    LET moved == glRotated(glTranslated(glPushMatrix(gl), dx, dy, dz), theta, 0, 0, 1)
    IN  [mat |-> moved.top, gl |-> glPopMatrix(moved)]

\* mouseTheta: the mouse angle, offset and snapped down to a multiple of step
mouseTheta(mouseX, step, offset) ==
    (((360 * mouseX + offset * width) % (360 * width)) \div (width * step)) * step

\* A mutant: the shift d is applied as a quarter of a period for each half.
ctrlPos_quarter_shift(A, T, d2, x) ==
    LET f == (4 * x - d2 * T) % (4 * T)
    IN  (A * Abs(f - 2 * T)) \div T - A

\* ctrlPos, with d given in halves (d2 = 2 * d)
ctrlPos(A, T, d2, x) ==
    LET f == (2 * x - d2 * T) % (2 * T)
    IN  (2 * A * Abs(f - T)) \div T - A

\* LifeManager.__init__
LifeManager(n) == [max |-> n, num |-> n]

\* A mutant: a life is taken even when none is left.
killLife_unclamped(l) == [l EXCEPT !.num = l.num - 1]

\* LifeManager.killLife
killLife(l) == [l EXCEPT !.num = Max2(l.num - 1, 0)]

\* VerticalTimer.__init__
VerticalTimer == [progress |-> 0, warnSoundPlayed |-> FALSE, restarted |-> FALSE]

\* VerticalTimer.reset
timerReset(t) == [t EXCEPT !.progress = 0, !.warnSoundPlayed = FALSE]

\* A mutant: the warning is not marked as played.
timerUpdate_warning_unmarked(t, d) ==
    LET progress == t.progress + timerPerTick * d
        wrapped  == progress > timerHeight
        now      == IF wrapped THEN progress % timerHeight ELSE progress
        warned   == IF wrapped THEN FALSE ELSE t.warnSoundPlayed
    IN  [ progress        |-> now,
          warnSoundPlayed |-> warned,
          restarted       |-> wrapped ]

\* VerticalTimer.update
timerUpdate(t, d) ==
    LET progress == t.progress + timerPerTick * d
        wrapped  == progress > timerHeight
        now      == IF wrapped THEN progress % timerHeight ELSE progress
        warned   == IF wrapped THEN FALSE ELSE t.warnSoundPlayed
    IN  [ progress        |-> now,
          warnSoundPlayed |-> warned \/ 4 * now >= 3 * timerHeight,
          restarted       |-> wrapped ]

\* VerticalTimer.update: whether this update plays the warning sound
warnPlayed(t, d) ==
    LET progress == t.progress + timerPerTick * d
        wrapped  == progress > timerHeight
        now      == IF wrapped THEN progress % timerHeight ELSE progress
        warned   == IF wrapped THEN FALSE ELSE t.warnSoundPlayed
    IN  4 * now >= 3 * timerHeight /\ ~warned

\* the width of a button, in the steps its wipe is measured in
wipeWidth == 2

\* Button.__init__
Button ==
    [ wipeProgress |-> 0, hovering |-> FALSE, pushed |-> FALSE, clicked |-> FALSE,
      hoverSoundPlayed |-> FALSE ]

\* A mutant: pushed is kept when the cursor leaves the button.
buttonUpdate_pushed_kept(b, over, pressed, wiped) ==
    IF over
    THEN IF pressed
         THEN [b EXCEPT !.hovering = TRUE, !.hoverSoundPlayed = TRUE,
                        !.pushed = TRUE, !.clicked = FALSE,
                        !.wipeProgress = wipeWidth]
         ELSE [b EXCEPT !.hovering = TRUE, !.hoverSoundPlayed = TRUE,
                        !.clicked = b.pushed,
                        !.wipeProgress = IF @ < wipeWidth THEN Min2(@ + wiped, wipeWidth) ELSE @]
    ELSE [b EXCEPT !.hovering = FALSE, !.hoverSoundPlayed = FALSE,
                   !.clicked = FALSE,
                   !.wipeProgress = IF @ > 0 THEN Max2(@ - wiped, 0) ELSE @]

\* Button.update: over says whether the cursor is inside the button, pressed
\* whether the left mouse button is down, wiped is wipePerSecond * dt
buttonUpdate(b, over, pressed, wiped) ==
    IF over
    THEN IF pressed
         THEN [b EXCEPT !.hovering = TRUE, !.hoverSoundPlayed = TRUE,
                        !.pushed = TRUE, !.clicked = FALSE,
                        !.wipeProgress = wipeWidth]
         ELSE [b EXCEPT !.hovering = TRUE, !.hoverSoundPlayed = TRUE,
                        !.clicked = b.pushed,
                        !.wipeProgress = IF @ < wipeWidth THEN Min2(@ + wiped, wipeWidth) ELSE @]
    ELSE [b EXCEPT !.pushed = FALSE, !.hovering = FALSE, !.hoverSoundPlayed = FALSE,
                   !.clicked = FALSE,
                   !.wipeProgress = IF @ > 0 THEN Max2(@ - wiped, 0) ELSE @]

\* CycleButton.__init__ with n states
CycleButton(n, initCycleState) ==
    [ buttons |-> [i \in 1..n |-> Button], wipeProgress |-> 0,
      cycleState |-> initCycleState ]

\* A mutant: the button that was clicked stays pushed.
cycleUpdate_pushed_kept(c, over, pressed, wiped) ==
    LET cur  == c.cycleState + 1
        b    == buttonUpdate(c.buttons[cur], over, pressed, wiped)
        next == ((c.cycleState + 1) % Len(c.buttons)) + 1
    IN  IF b.clicked
        THEN LET released == [c.buttons EXCEPT ![cur] = [b EXCEPT !.clicked = FALSE]]
             IN  [ buttons      |-> [released EXCEPT ![next].wipeProgress = b.wipeProgress],
                   wipeProgress |-> b.wipeProgress,
                   cycleState   |-> next - 1 ]
        ELSE [ buttons      |-> [c.buttons EXCEPT ![cur] = b],
               wipeProgress |-> b.wipeProgress,
               cycleState   |-> c.cycleState ]

\* CycleButton.update
cycleUpdate(c, over, pressed, wiped) ==
    LET cur  == c.cycleState + 1
        b    == buttonUpdate(c.buttons[cur], over, pressed, wiped)
        next == ((c.cycleState + 1) % Len(c.buttons)) + 1
    IN  IF b.clicked
        THEN LET released == [c.buttons EXCEPT
                                 ![cur] = [b EXCEPT !.clicked = FALSE, !.pushed = FALSE]]
             IN  [ buttons      |-> [released EXCEPT ![next].wipeProgress = b.wipeProgress],
                   wipeProgress |-> b.wipeProgress,
                   cycleState   |-> next - 1 ]
        ELSE [ buttons      |-> [c.buttons EXCEPT ![cur] = b],
               wipeProgress |-> b.wipeProgress,
               cycleState   |-> c.cycleState ]

\* utils.thresholds: the level and the score that unlock a level; << >>
\* stands for the 0 of a level that needs neither
thresholds ==
    [ square    |-> << >>,
      triangle  |-> << >>,
      rectangle |-> <<"square", 5>>,
      hexagon   |-> <<"rectangle", 10>>,
      caret     |-> <<"hexagon", 10>>,
      slant     |-> <<"hexagon", 10>>,
      pentagon  |-> <<"slant", 15>>,
      en        |-> <<"pentagon", 15>>,
      kay       |-> <<"pentagon", 15>>,
      mta_arrow |-> <<"en", 10>>,
      pi        |-> <<"kay", 10>>,
      double_u  |-> <<"mta_arrow", 15>> ]

\* HoverItem.__init__
HoverItem == [hovering |-> FALSE]

\* LevelSelector.__init__: highscores is what highscores.json holds when the
\* selector is made, getHighScore reads one entry of it
LevelSelector(levelName, highscores) ==
    LET thresh == thresholds[levelName]
    IN  IF thresh = << >> \/ highscores[thresh[1]] >= thresh[2]
        THEN [ locked |-> FALSE, reqLevel |-> "", threshold |-> 0,
               name |-> levelName, play |-> FALSE, item |-> Button ]
        ELSE [ locked |-> TRUE, reqLevel |-> thresh[1], threshold |-> thresh[2],
               name |-> levelName, play |-> FALSE, item |-> HoverItem ]

\* A mutant: a press on a locked level starts it.
selectorUpdate_lock_ignored(s, over, pressed, wiped) ==
    IF s.locked
    THEN [s EXCEPT !.item = [hovering |-> over], !.play = over /\ pressed]
    ELSE LET b == buttonUpdate(s.item, over, pressed, wiped)
         IN  [s EXCEPT !.item = b, !.play = b.clicked]

\* LevelSelector.update, with HoverItem.update for the item of a locked level
selectorUpdate(s, over, pressed, wiped) ==
    IF s.locked
    THEN [s EXCEPT !.item = [hovering |-> over], !.play = FALSE]
    ELSE LET b == buttonUpdate(s.item, over, pressed, wiped)
         IN  [s EXCEPT !.item = b, !.play = b.clicked]

\* A mutant: a left button press undoes the one before it.
RECURSIVE handleEvents_toggle(_, _, _)
handleEvents_toggle(evs, i, st) ==
    IF i > Len(evs) THEN st
    ELSE CASE evs[i] = "QUIT"        -> [st EXCEPT !.quit = TRUE]
           [] evs[i] = "K_ESCAPE"    -> handleEvents_toggle(evs, i + 1, [st EXCEPT !.paused = TRUE])
           [] evs[i] = "BUTTON_LEFT" -> handleEvents_toggle(evs, i + 1, [st EXCEPT !.clicked = ~st.clicked])
           [] OTHER                  -> handleEvents_toggle(evs, i + 1, st)

\* The event loop of a frame: QUIT ends it at once, Escape asks for the
\* pause menu, a left button press is a click; anything else is ignored.
RECURSIVE handleEvents(_, _, _)
handleEvents(evs, i, st) ==
    IF i > Len(evs) THEN st
    ELSE CASE evs[i] = "QUIT"        -> [st EXCEPT !.quit = TRUE]
           [] evs[i] = "K_ESCAPE"    -> handleEvents(evs, i + 1, [st EXCEPT !.paused = TRUE])
           [] evs[i] = "BUTTON_LEFT" -> handleEvents(evs, i + 1, [st EXCEPT !.clicked = TRUE])
           [] OTHER                  -> handleEvents(evs, i + 1, st)

\* A mutant: the game is lost on an undrawable polygon only.
loseCondition_lives_unchecked(c, l) == Len(c.vertices) < 3

\* A mutant: the game is lost when the lives run out only.
loseCondition_vertices_unchecked(c, l) == l.num = 0

\* the lose conditions
loseCondition(c, l) == Len(c.vertices) < 3 \/ l.num = 0

\* A mutant: every frame of a game that is not lost scores.
scoreAfter_every_frame(c, g, s) == IF ~g THEN s + 1 ELSE s

\* A mutant: every click scores.
scoreAfter_every_click(c, g, s) == IF c THEN s + 1 ELSE s

\* "add to score only when it should"
scoreAfter(c, g, s) == IF c /\ ~g THEN s + 1 ELSE s

\* the axes of the outline gamePage holds as control and base at height n
axesAt(n) == IF n = 0 THEN shapeAxes ELSE 0

\* the stack actions of a game, at most
MaxStacks == 2

\* the time a frame takes, in ticks
Ticks      == {1, 2}

GameShapes == {"square", "ell"}
MouseXs    == {0, 120}
RandThetas == {0, 45}
EventLists ==
    { << >>, <<"BUTTON_LEFT">>, <<"BUTTON_LEFT", "BUTTON_LEFT">>,
      <<"BUTTON_RIGHT", "BUTTON_LEFT">>,
      <<"K_ESCAPE">>, <<"BUTTON_LEFT", "K_ESCAPE">>, <<"QUIT">>, <<"BUTTON_LEFT", "QUIT">> }

\* gamePage up to its frame loop.  The overlay hands out its shells
\* clockwise; the order of the members of a collection is left open.
Init ==
    /\ overlay \in [reversed : BOOLEAN, shellCW : {TRUE}]
    /\ gameShape \in GameShapes
    /\ fn = "gamePage" /\ args = <<gameShape>> /\ raw = NoGeom /\ ret = Pending
    /\ running = TRUE /\ pageNum = 2 /\ lastPage = 1 /\ storedHigh = 0
    /\ pc = "gamePage"
    /\ control = extrude(get(gameShape), 1)
    /\ forward = TRUE
    /\ controlX = 0
    /\ controlY = amp
    /\ controlTheta = 0
    /\ thetaOffset \in RandThetas
    /\ pt = 0
    /\ colIndex = 0
    /\ tower = << >>
    /\ towerBase = control
    /\ stack = 0
    /\ lives = LifeManager(lifeNum)
    /\ timer = VerticalTimer
    /\ score = 0
    /\ highScore = storedHigh
    /\ clicked = FALSE /\ paused = FALSE /\ gameover = FALSE
    /\ dt = 0
    /\ newHigh = FALSE
    /\ calls = [spacialTransform |-> 0, andPolygons |-> 0, extrude |-> 1]
    /\ events = << >>
    /\ passed = << >>
    /\ colors = NoColors
    /\ modelview \in {glInit, setupScene(reset(glInit), worldTilt)}
    /\ button = << >> /\ seen = NoSight

EventsRead(evs) == handleEvents(evs, 1, [quit |-> FALSE, paused |-> paused, clicked |-> FALSE])

\* the lists of events that are read as quit, paused and clicked say
Reads(q, p, c) ==
    { evs \in EventLists :
        LET ev == EventsRead(evs) IN ev.quit = q /\ (q \/ (ev.paused = p /\ ev.clicked = c)) }

\* gamePage returns: its local variables are gone
LeavePage ==
    /\ pc' = "returned"
    /\ gameShape' = "none"
    /\ control' = << >> /\ towerBase' = << >> /\ tower' = << >>
    /\ forward' = TRUE /\ controlX' = 0 /\ controlY' = 0 /\ controlTheta' = 0
    /\ thetaOffset' = 0 /\ pt' = 0 /\ colIndex' = 0 /\ stack' = 0
    /\ lives' = << >> /\ timer' = << >>
    /\ score' = 0 /\ highScore' = 0
    /\ clicked' = FALSE /\ paused' = FALSE /\ gameover' = FALSE
    /\ dt' = 0 /\ newHigh' = FALSE
    /\ events' = << >>
    /\ passed' = << >>
    /\ colors' = NoColors
    /\ UNCHANGED calls

\* An iteration of the frame loop that reads QUIT.
LoopQuit ==
    /\ pc = "gamePage"
    /\ Reads(TRUE, FALSE, FALSE) # {}
    /\ running' = FALSE
    /\ LeavePage
    /\ UNCHANGED <<geomVars, pageNum, lastPage, storedHigh, modelview, unitVars>>

\* An iteration that finds the game lost: gameover() up to its own loop.
LoopGameOver ==
    /\ pc = "gamePage"
    /\ gameover
    /\ \E p \in BOOLEAN, c \in BOOLEAN :
         /\ events' \in Reads(FALSE, p, c)
         /\ clicked' = c
         /\ paused' = p
    /\ newHigh' = (score > storedHigh)
    /\ storedHigh' = IF score > storedHigh THEN score ELSE storedHigh
    /\ pc' = "gameover"
    /\ UNCHANGED <<geomVars, running, pageNum, lastPage>>
    /\ UNCHANGED <<gameShape, control, forward, controlX, controlY, controlTheta,
                   thetaOffset, pt, colIndex, tower, towerBase, stack, lives, timer,
                   score, highScore, gameover, dt, calls, passed, colors, modelview>>
    /\ UNCHANGED unitVars

\* A mutant: the exit button of the game-over screen leads to the levels.
GameOverScreen_exit_to_levels ==
    /\ pc = "gameover"
    /\ \E input \in {"QUIT", "retry", "exit"} :
         /\ running' = (IF input = "QUIT" THEN FALSE ELSE running)
         /\ lastPage' = (IF input = "QUIT" THEN lastPage ELSE 2)
         /\ pageNum' = (CASE input = "QUIT" -> pageNum [] input = "retry" -> 2 [] input = "exit" -> 1)
    /\ LeavePage
    /\ UNCHANGED <<geomVars, storedHigh, modelview, unitVars>>

\* The game-over screen: QUIT, the retry button or the exit button end
\* it, and gamePage with it.
GameOverScreen ==
    /\ pc = "gameover"
    /\ \E input \in {"QUIT", "retry", "exit"} :
         /\ running' = (IF input = "QUIT" THEN FALSE ELSE running)
         /\ lastPage' = (IF input = "QUIT" THEN lastPage ELSE 2)
         /\ pageNum' = (CASE input = "QUIT" -> pageNum [] input = "retry" -> 2 [] input = "exit" -> 0)
    /\ LeavePage
    /\ UNCHANGED <<geomVars, storedHigh, modelview, unitVars>>

\* An iteration that finds Escape pressed: paused() up to its own loop.
LoopPause ==
    /\ pc = "gamePage"
    /\ ~gameover
    /\ \E c \in BOOLEAN :
         /\ events' \in Reads(FALSE, TRUE, c)
         /\ clicked' = c
    /\ paused' = TRUE
    /\ pc' = "paused"
    /\ UNCHANGED <<geomVars, pageVars>>
    /\ UNCHANGED <<gameShape, control, forward, controlX, controlY, controlTheta,
                   thetaOffset, pt, colIndex, tower, towerBase, stack, lives, timer,
                   score, highScore, gameover, dt, newHigh, calls, passed, colors, modelview>>
    /\ UNCHANGED unitVars

\* The pause menu: the resume button continues the frame loop.
PauseResume ==
    /\ pc = "paused"
    /\ pc' = "gamePage"
    /\ paused' = FALSE
    /\ UNCHANGED <<geomVars, pageVars>>
    /\ UNCHANGED <<gameShape, control, forward, controlX, controlY, controlTheta,
                   thetaOffset, pt, colIndex, tower, towerBase, stack, lives, timer,
                   score, highScore, clicked, gameover, dt, newHigh, calls, events,
                   passed, colors, modelview>>
    /\ UNCHANGED unitVars

\* The pause menu: QUIT and the exit button end gamePage.
PauseLeave ==
    /\ pc = "paused"
    /\ \E input \in {"QUIT", "exit"} :
         /\ running' = (IF input = "QUIT" THEN FALSE ELSE running)
         /\ lastPage' = (IF input = "exit" THEN 2 ELSE lastPage)
         /\ pageNum' = (IF input = "exit" THEN 0 ELSE pageNum)
    /\ LeavePage
    /\ UNCHANGED <<geomVars, storedHigh, modelview, unitVars>>

\* A mutant: the layers are colored from the bottom of the tower up.
newColIndex_from_bottom(col, height, i) == i % blockColorsLen

\* "render rest of tower stack": the color index of layer i, with col the
\* index of the control block and height the layers drawn
newColIndex(col, height, i) == (col - height + i) % blockColorsLen

\* A mutant: the newest layer is shaved off.
shave_newest(t) == IF Len(t) > 7 THEN sliceTo(t, Len(t) - 1) ELSE t

\* "shave off bottom": tower.pop(0) when there are more than 7 layers
shave(t) == IF Len(t) > 7 THEN Tail(t) ELSE t

\* The frame the loop renders when it reads neither QUIT nor Escape and the
\* game is not lost: the tower is cut to 7 layers, the control block is put
\* at its place on the diagonal and turned to the mouse angle, the timer
\* runs; on a click the timer is reset and the control block becomes
\* placed, the intersection of base and control block, which is stacked;
\* then the lose conditions, the lost life, the score and the clock.
Frame(click, mouseX, placed, tick, rnd) ==
    LET shaved  == shave(tower)
        height  == Len(shaved)
        x       == IF forward THEN ctrlPos(amp, period, -1, pt)
                              ELSE ctrlPos(amp, period, 0, pt)
        y       == ctrlPos(amp, period, 0, pt)
        theta   == mouseTheta(mouseX, 5, thetaOffset)
        updated == timerUpdate(timer, dt)
        lost    == loseCondition(IF click THEN placed ELSE control, lives)
        scene   == setupScene(reset(modelview), worldTilt)
        drawing == drawLayers(drawPolygon(drawPolygon(scene, x, y, 0, theta),
                                          0, 0, -1 - height, 45), 0, height)
    IN  /\ stack' = height
        /\ controlX' = x
        /\ controlY' = y
        /\ controlTheta' = theta
        /\ \E drawn \in {drawing} :
              IF click
              THEN \E ofBase \in {renderGetMatrix(setupScene(reset(drawn), 0), 0, 0, -1,
                                                  IF height = 0 THEN 45 ELSE 0)} :
                   \E ofBlock \in {renderGetMatrix(setupScene(reset(ofBase.gl), 0),
                                                   x, y, 0, theta)} :
                      /\ modelview' = ofBlock.gl
                      /\ passed' = <<ofBase.mat, ofBlock.mat>>
              ELSE /\ modelview' = drawn
                   /\ passed' = << >>
        /\ timer' = IF click THEN timerReset(updated) ELSE updated
        /\ control' = IF click THEN placed ELSE control
        /\ tower' = IF click THEN Append(shaved, placed) ELSE shaved
        /\ forward' = IF click THEN ~forward ELSE forward
        /\ thetaOffset' = IF click THEN rnd ELSE thetaOffset
        /\ colIndex' = IF click THEN (colIndex + 1) % blockColorsLen ELSE colIndex
        /\ colors' = [ control |-> colIndex,
                       layers  |-> [i \in 1..height |-> newColIndex(colIndex, height, i - 1)],
                       placed  |-> IF click THEN Append(shave(colors.placed), colIndex)
                                            ELSE shave(colors.placed) ]
        /\ calls' = IF click
                    THEN [ spacialTransform |-> calls.spacialTransform + 2,
                           andPolygons      |-> calls.andPolygons + 1,
                           extrude          |-> calls.extrude + 1 ]
                    ELSE calls
        /\ gameover' = lost
        /\ lives' = IF updated.restarted THEN killLife(lives) ELSE lives
        /\ score' = scoreAfter(click, lost, score)
        /\ dt' = tick
        /\ pt' = ((IF click THEN 0 ELSE pt) + tick) % period
        /\ UNCHANGED <<geomVars, pageVars, unitVars>>
        /\ UNCHANGED <<pc, gameShape, towerBase, highScore, newHigh>>

\* A mutant: the control block is intersected in the pose of the frame
\* before.
Placed_pose_of_last_frame(mouseX) ==
    LET shaved     == shave(tower)
        height     == Len(shaved)
        newBase    == IF height = 0
                      THEN spacialTransform(towerBase.polygon,
                               getMatrix(0, 0, -1, 45 - axesAt(height)))
                      ELSE spacialTransform(shaved[Len(shaved)].polygon,
                               getMatrix(0, 0, -1, 0))
        newControl == spacialTransform(control.polygon,
                               getMatrix(controlX, controlY, 0, 0))
    IN  extrude(andPolygons(newBase, newControl).val, 1)

\* What a click stacks: base and control block are brought into their
\* poses, intersected, and the intersection is extruded.
Placed(mouseX) ==
    LET shaved     == shave(tower)
        height     == Len(shaved)
        x          == IF forward THEN ctrlPos(amp, period, -1, pt)
                                 ELSE ctrlPos(amp, period, 0, pt)
        y          == ctrlPos(amp, period, 0, pt)
        theta      == mouseTheta(mouseX, 5, thetaOffset)
        newBase    == IF height = 0
                      THEN spacialTransform(towerBase.polygon,
                               getMatrix(0, 0, -1, 45 - axesAt(height)))
                      ELSE spacialTransform(shaved[Len(shaved)].polygon,
                               getMatrix(0, 0, -1, 0))
        newControl == spacialTransform(control.polygon,
                               getMatrix(x, y, 0, theta - axesAt(height)))
    IN  extrude(andPolygons(newBase, newControl).val, 1)

\* whether the control block's turn keeps it on the lattice
OnLattice(mouseX) ==
    (mouseTheta(mouseX, 5, thetaOffset) - axesAt(Len(shave(tower)))) % 90 = 0

\* An iteration that renders a frame without a click; the frame takes one
\* of the times of ticks, the mouse is at one of mouseXs.
RenderFrame(ticks, mouseXs) ==
    /\ pc = "gamePage"
    /\ ~gameover
    /\ events' \in Reads(FALSE, FALSE, FALSE)
    /\ clicked' = FALSE
    /\ paused' = FALSE
    /\ \E mouseX \in mouseXs, tick \in ticks :
         Frame(FALSE, mouseX, control, tick, thetaOffset)

\* An iteration that renders a frame and stacks the control block, while
\* fewer than limit blocks have been stacked; randTheta() gives one of
\* thetas.
StackFrame(limit, ticks, mouseXs, thetas) ==
    /\ pc = "gamePage"
    /\ ~gameover
    /\ calls.andPolygons < limit
    /\ Reads(FALSE, FALSE, TRUE) # {}
    /\ clicked' = TRUE
    /\ paused' = FALSE
    /\ \E mouseX \in mouseXs :
         /\ OnLattice(mouseX)
         /\ \E placed \in {Placed(mouseX)} :
              /\ \E tick \in ticks, rnd \in thetas :
                    Frame(TRUE, mouseX, placed, tick, rnd)
              /\ events' \in Reads(FALSE, FALSE, TRUE)

LoopRender == RenderFrame(Ticks, MouseXs)

LoopStack == StackFrame(MaxStacks, Ticks, MouseXs, RandThetas)

Next ==
    \/ LoopQuit \/ LoopGameOver \/ GameOverScreen
    \/ LoopPause \/ PauseResume \/ PauseLeave
    \/ LoopRender \/ LoopStack

Spec == Init /\ [][Next]_vars
(***************************************************************************)
(* The frame loop keeps running: "while True" begins its next iteration as *)
(* soon as clock.tick returns, whatever the events are.  Nothing makes the *)
(* player leave the pause menu or the game-over screen.  The game is the   *)
(* square with slow frames of a quarter period, the mouse at the left edge *)
(* and no random turn of a new control block.                              *)
(***************************************************************************)

LiveTicks == {4}

LiveInit == Init /\ gameShape = "square" /\ thetaOffset = shapeAxes

LiveRender == RenderFrame(LiveTicks, {0})

LiveStack == StackFrame(MaxStacks, LiveTicks, {0}, {0})

LiveNext ==
    \/ LoopQuit \/ LoopGameOver \/ GameOverScreen
    \/ LoopPause \/ PauseResume \/ PauseLeave
    \/ LiveRender \/ LiveStack

LoopIteration == LoopQuit \/ LoopGameOver \/ LoopPause \/ LiveRender \/ LiveStack

LiveSpec == LiveInit /\ [][LiveNext]_vars /\ WF_vars(LoopIteration)

(***************************************************************************)
(* A long game: the L-shaped hexagon, frames of one tick, the mouse at the *)
(* left edge, no random turn of a new control block, and enough stack      *)
(* actions for the tower to grow past its 7 layers.                        *)
(***************************************************************************)

MaxTower == 8

TowerTicks == {1}

TowerInit == Init /\ gameShape = "ell" /\ thetaOffset = shapeAxes

TowerRender == RenderFrame(TowerTicks, {0})

TowerStack == StackFrame(MaxTower, TowerTicks, {0}, {0})

TowerNext ==
    \/ LoopQuit \/ LoopGameOver \/ GameOverScreen
    \/ LoopPause \/ PauseResume \/ PauseLeave
    \/ TowerRender \/ TowerStack

TowerSpec == TowerInit /\ [][TowerNext]_vars

(***************************************************************************)
(* A game that goes once round the block colors: the square, frames of a   *)
(* quarter period as in LiveSpec, and more stack actions than there are    *)
(* colors.                                                                 *)
(***************************************************************************)

MaxColored == 19

ColorStack == StackFrame(MaxColored, LiveTicks, {0}, {0})

ColorNext ==
    \/ LoopQuit \/ LoopGameOver \/ GameOverScreen
    \/ LoopPause \/ PauseResume \/ PauseLeave
    \/ LiveRender \/ ColorStack

ColorSpec == LiveInit /\ [][ColorNext]_vars

(***************************************************************************)
(* The whole program (src/stackplus.py, main program control): the loading *)
(* page, then "while running: match pageNum", every page handler running   *)
(* until it returns.  pc is "none" before the loading page, "returned"     *)
(* between two handlers and "ended" after the loop.  A handler other than  *)
(* gamePage is one step, from its call to its return; the level played is  *)
(* the square, as in LiveSpec.                                             *)
(***************************************************************************)

pageLocals ==
    <<gameShape, control, forward, controlX, controlY, controlTheta, thetaOffset,
      pt, colIndex, tower, towerBase, stack, lives, timer, score, highScore,
      clicked, paused, gameover, dt, newHigh, calls, events, passed, colors>>

AppInit ==
    /\ NoPage
    /\ overlay = [reversed |-> FALSE, shellCW |-> TRUE]
    /\ fn = "main" /\ args = << >> /\ raw = NoGeom /\ ret = Pending

\* loadingPage: QUIT, or four seconds have passed
LoadingPage ==
    /\ pc = "none"
    /\ pc' = "returned"
    /\ \E input \in {"QUIT", "time"} :
         /\ running' = (input # "QUIT")
         /\ pageNum' = IF input = "time" THEN 0 ELSE pageNum
    /\ UNCHANGED <<geomVars, lastPage, storedHigh, pageLocals, modelview, unitVars>>

\* A page other than gamePage, from the call of its handler to its return:
\* its frames draw a tilted scene; QUIT, which may come before the first
\* frame is drawn, clears running; a click on a button sets pageNum to
\* target and lastPage to last.
Navigate(page, quit, target, last) ==
    /\ pc = "returned" /\ running /\ pageNum = page
    /\ pc' = "returned"
    /\ running' = ~quit
    /\ pageNum' = IF quit THEN pageNum ELSE target
    /\ lastPage' = IF quit THEN lastPage ELSE last
    /\ modelview' \in (IF quit THEN {modelview} ELSE {})
                        \cup {setupScene(reset(modelview), worldTilt)}
    /\ UNCHANGED <<geomVars, storedHigh, pageLocals, unitVars>>

MenuPage ==
    \/ Navigate(0, TRUE, 0, 0)
    \/ \E target \in {1, 3, 4, 5} : Navigate(0, FALSE, target, 0)

LevelsPage ==
    \/ Navigate(1, TRUE, 1, 1)
    \/ \E target \in {0, 2} : Navigate(1, FALSE, target, 1)

\* A mutant: the credits page leaves the tutorial's mark.
CreditsPage_as_tutorial == \E quit \in BOOLEAN : Navigate(5, quit, 0, 4)

SettingsPage == \E quit \in BOOLEAN : Navigate(3, quit, 0, 3)
TutorialPage == \E quit \in BOOLEAN : Navigate(4, quit, 0, 4)
CreditsPage  == \E quit \in BOOLEAN : Navigate(5, quit, 0, 5)

\* gamePage is called and runs up to its frame loop
EnterGamePage ==
    /\ pc = "returned" /\ running /\ pageNum = 2
    /\ pc' = "gamePage"
    /\ gameShape' = "square"
    /\ control' = extrude(get("square"), 1)
    /\ forward' = TRUE
    /\ controlX' = 0
    /\ controlY' = amp
    /\ controlTheta' = 0
    /\ thetaOffset' = shapeAxes
    /\ pt' = 0
    /\ colIndex' = 0
    /\ tower' = << >>
    /\ towerBase' = extrude(get("square"), 1)
    /\ stack' = 0
    /\ lives' = LifeManager(lifeNum)
    /\ timer' = VerticalTimer
    /\ score' = 0
    /\ highScore' = storedHigh
    /\ clicked' = FALSE /\ paused' = FALSE /\ gameover' = FALSE
    /\ dt' = 0
    /\ newHigh' = FALSE
    /\ calls' = [spacialTransform |-> 0, andPolygons |-> 0, extrude |-> 1]
    /\ events' = << >>
    /\ passed' = << >>
    /\ colors' = NoColors
    /\ UNCHANGED <<geomVars, pageVars, modelview, unitVars>>

\* "while running" ends: render.end(), pygame.quit()
MainEnd ==
    /\ pc = "returned" /\ ~running
    /\ pc' = "ended"
    /\ UNCHANGED <<geomVars, pageVars, pageLocals, modelview, unitVars>>

AppNext ==
    \/ LoadingPage \/ MenuPage \/ LevelsPage \/ EnterGamePage
    \/ SettingsPage \/ TutorialPage \/ CreditsPage \/ MainEnd
    \/ LoopQuit \/ LoopGameOver \/ GameOverScreen
    \/ LoopPause \/ PauseResume \/ PauseLeave
    \/ LiveRender \/ LiveStack

AppSpec == AppInit /\ [][AppNext]_vars

(***************************************************************************)
(* The classes of stackplus.py on their own: one object is constructed and *)
(* its methods are called, in any order and on any input, at most MaxCalls *)
(* times.  fn names the class, args the call made last; for a              *)
(* LevelSelector args stays the constructor's, with the high scores the    *)
(* constructor read.                                                       *)
(***************************************************************************)

MaxLives == 3
MaxCycle == 3
MaxCalls == 5

\* dt, in ticks
TimerSteps == {0, 1, 10, 20, 30}

\* highscores.json as checkHighScoreJson writes it, with one level played
HighScoreFiles ==
    { [l \in DOMAIN thresholds |-> IF l = played THEN best ELSE 0] :
        played \in DOMAIN thresholds, best \in {0, 4, 5, 9, 10, 14, 15} }

UnitInit ==
    /\ NoGame
    /\ overlay = [reversed |-> FALSE, shellCW |-> TRUE]
    /\ raw = NoGeom /\ ret = Pending
    /\ calls = [methods |-> 0]
    /\ seen = NoSight
    /\ \/ /\ fn = "LifeManager"
          /\ \E lifeNumber \in 0..MaxLives :
                args = <<lifeNumber>> /\ lives = LifeManager(lifeNumber)
          /\ timer = << >> /\ button = << >>
       \/ /\ fn = "VerticalTimer"
          /\ args = << >> /\ timer = VerticalTimer
          /\ lives = << >> /\ button = << >>
       \/ /\ fn = "Button"
          /\ args = << >> /\ button = Button
          /\ lives = << >> /\ timer = << >>
       \/ /\ fn = "CycleButton"
          /\ \E n \in 1..MaxCycle : \E initCycleState \in 0..(n - 1) :
                args = <<n, initCycleState>> /\ button = CycleButton(n, initCycleState)
          /\ lives = << >> /\ timer = << >>
       \/ /\ fn = "LevelSelector"
          /\ \E levelName \in DOMAIN thresholds, highscores \in HighScoreFiles :
                /\ args = [levelName |-> levelName, highscores |-> highscores]
                /\ button = LevelSelector(levelName, highscores)
          /\ lives = << >> /\ timer = << >>

\* a method is called: what every such call leaves alone
Called ==
    /\ calls.methods < MaxCalls
    /\ calls' = [methods |-> calls.methods + 1]
    /\ UNCHANGED <<overlay, fn, raw, ret, pageVars, modelview>>
    /\ UNCHANGED <<pc, gameShape, control, forward, controlX, controlY, controlTheta,
                   thetaOffset, pt, colIndex, tower, towerBase, stack,
                   score, highScore, clicked, paused, gameover, dt, newHigh,
                   events, passed, colors>>

CallKillLife ==
    /\ fn = "LifeManager"
    /\ Called
    /\ args' = [method |-> "killLife"]
    /\ lives' = killLife(lives)
    /\ UNCHANGED <<timer, button, seen>>

CallTimerUpdate ==
    /\ fn = "VerticalTimer"
    /\ Called
    /\ \E d \in TimerSteps :
         /\ args' = [method |-> "update", dt |-> d]
         /\ timer' = timerUpdate(timer, d)
         /\ seen' = [seen EXCEPT !.warnings =
                        (IF timer.progress + timerPerTick * d > timerHeight THEN 0 ELSE @)
                        + (IF warnPlayed(timer, d) THEN 1 ELSE 0)]
    /\ UNCHANGED <<lives, button>>

CallTimerReset ==
    /\ fn = "VerticalTimer"
    /\ Called
    /\ args' = [method |-> "reset"]
    /\ timer' = timerReset(timer)
    /\ seen' = [seen EXCEPT !.warnings = 0]
    /\ UNCHANGED <<lives, button>>

CallButtonUpdate ==
    /\ fn = "Button"
    /\ Called
    /\ \E over \in BOOLEAN, pressed \in BOOLEAN, wiped \in 0..1 :
         /\ args' = [method |-> "update", over |-> over, pressed |-> pressed]
         /\ button' = buttonUpdate(button, over, pressed, wiped)
         /\ seen' = [seen EXCEPT !.held = over /\ (pressed \/ @)]
    /\ UNCHANGED <<lives, timer>>

CallCycleUpdate ==
    /\ fn = "CycleButton"
    /\ Called
    /\ \E over \in BOOLEAN, pressed \in BOOLEAN, wiped \in 0..1 :
         /\ args' = [method |-> "update", over |-> over, pressed |-> pressed]
         /\ button' = cycleUpdate(button, over, pressed, wiped)
         /\ seen' = [seen EXCEPT !.held = over /\ (pressed \/ @)]
    /\ UNCHANGED <<lives, timer>>

CallSelectorUpdate ==
    /\ fn = "LevelSelector"
    /\ Called
    /\ \E over \in BOOLEAN, pressed \in BOOLEAN, wiped \in 0..1 :
         /\ button' = selectorUpdate(button, over, pressed, wiped)
         /\ seen' = [seen EXCEPT !.held = over /\ (pressed \/ @)]
    /\ UNCHANGED <<lives, timer, args>>

UnitNext ==
    \/ CallKillLife \/ CallTimerUpdate \/ CallTimerReset
    \/ CallButtonUpdate \/ CallCycleUpdate \/ CallSelectorUpdate

UnitSpec == UnitInit /\ [][UnitNext]_vars
(***************************************************************************)
(* The program as a whole: a call of a function of polygons.py on its own, *)
(* or gamePage, which calls them frame by frame.                           *)
(***************************************************************************)

ProgramInit == GeomInit \/ Init

ProgramNext == GeomNext \/ Next

Program == ProgramInit /\ [][ProgramNext]_vars

(***************************************************************************)
(* Properties of the functions of polygons.py (under GeomSpec)             *)
(***************************************************************************)

AndPolygonsDone == fn = "andPolygons" /\ ret # Pending
ExtrudeDone     == fn = "extrude" /\ ret # Pending

CollectionTypes == {"MultiPolygon", "MultiLineString", "MultiPoint", "GeometryCollection"}

\* the raw intersection holds no polygon: it is empty, a point, a line, or
\* a collection without a polygon member
NoPolygonMember(g) ==
    IF g.type = "Polygon" THEN Len(g.coords) = 0
    ELSE IF g.type \in CollectionTypes
         THEN \A i \in DOMAIN g.geoms : g.geoms[i].type # "Polygon"
         ELSE TRUE

\* C1: andPolygons never raises, and whenever the raw intersection is not
\* polygonal (empty, a point, a line, a collection with no polygon member)
\* it returns the empty polygon, zero vertices, as a normal return value.
C1_NeverRaises ==
    AndPolygonsDone =>
        /\ ret.exc = "none"
        /\ NoPolygonMember(raw) => (ret.val = EmptyPolygon /\ Len(ret.val) = 0)

\* C1, witnessed: the raw intersection is a single line (it has no geoms to
\* loop over) and the call returned the empty polygon.
C1_Witness ==
    /\ AndPolygonsDone
    /\ raw.type = "LineString"
    /\ ret = Return(EmptyPolygon)

WindingCase ==
    /\ fn \in {"get", "spacialTransform", "andPolygons"}
    /\ ret.exc = "none"
    /\ Len(ret.val) > 0

\* C3 as stated: every non-empty polygon returned by get, spacialTransform
\* or andPolygons is counter-clockwise (signed area > 0), for every input
\* winding and every transform matrix.
C3_Original == WindingCase => SignedArea2(ret.val) > 0

\* C3, amended: every non-empty polygon returned by get, spacialTransform or
\* andPolygons is counter-clockwise (signed area > 0), for every input
\* winding and every transform matrix whose x-y block is non-singular,
\* orientation-reversing ones included.
C3_Winding ==
    (WindingCase /\ (fn = "spacialTransform" => det2(args[2]) # 0))
        => SignedArea2(ret.val) > 0

\* C3, witnessed: a counter-clockwise polygon went through a matrix that
\* reverses orientation and came back counter-clockwise.
C3_Witness ==
    /\ fn = "spacialTransform" /\ ret # Pending
    /\ Len(args[1]) > 0
    /\ SignedArea2(args[1]) > 0
    /\ det2(args[2]) < 0
    /\ SignedArea2(ret.val) > 0

\* the number of distinct vertices of the polygon given to extrude
SrcN == Len(args[1]) - 1

\* its counter-clockwise vertex sequence, the closing duplicate stripped
SrcCCW ==
    IF SignedArea2(args[1]) > 0 THEN sliceTo(args[1], SrcN)
    ELSE sliceTo(reversed(args[1]), SrcN)

XY(v) == <<v[1], v[2]>>

\* C4: for a polygon with N >= 3 distinct vertices extrude returns exactly
\* 2N vertices, 3N lines, 2 bases of N indices each and N quads, and the 4
\* indices of every quad are pairwise distinct.
C4_Topology ==
    (ExtrudeDone /\ SrcN >= 3) =>
        LET r == ret.val IN
        /\ Len(r.vertices) = 2 * SrcN
        /\ Len(r.lines) = 3 * SrcN
        /\ Len(r.bases) = 2
        /\ Len(r.bases[1]) = SrcN /\ Len(r.bases[2]) = SrcN
        /\ Len(r.quads) = SrcN
        /\ \A k \in DOMAIN r.quads :
              /\ Len(r.quads[k]) = 4
              /\ Cardinality({r.quads[k][j] : j \in 1..4}) = 4

\* C4, witnessed: an eight-vertex shape was extruded into 16 vertices.
C4_Witness ==
    /\ ExtrudeDone /\ SrcN = 8
    /\ Len(ret.val.vertices) = 16 /\ Len(ret.val.quads) = 8

\* C5: with p[0..N-1] the counter-clockwise vertex sequence of the input,
\* vertices[i] = (p[N-1-i], 0) and vertices[N+i] = (p[i], depth) for i in
\* 0..N-1, and each source vertex appears exactly once in each ring.
C5_Rings ==
    (ExtrudeDone /\ SrcN >= 3) =>
        LET v == ret.val.vertices
            p == SrcCCW
            N == SrcN
        IN /\ Len(v) = 2 * N
           /\ \A i \in 0..(N - 1) :
                 /\ v[i + 1] = <<X(p[N - i]), Y(p[N - i]), 0>>
                 /\ v[N + i + 1] = <<X(p[i + 1]), Y(p[i + 1]), args[2]>>
           /\ \A j \in 1..N :
                 /\ Cardinality({i \in 1..N : XY(v[i]) = p[j]}) = 1
                 /\ Cardinality({i \in (N + 1)..(2 * N) : XY(v[i]) = p[j]}) = 1

\* C5, witnessed: a clockwise input was extruded with depth 2.
C5_Witness ==
    /\ ExtrudeDone /\ SrcN >= 3
    /\ SignedArea2(args[1]) < 0
    /\ args[2] = 2
    /\ ret.val.vertices[1][3] = 0 /\ ret.val.vertices[2 * SrcN][3] = 2

\* C6: quad i is (BL, BR, TR, TL); BL and TL are the bottom and top copies
\* of one source vertex, BR and TR those of the next source vertex in
\* counter-clockwise order, and the N quads cover each source edge once.
C6_Quads ==
    (ExtrudeDone /\ SrcN >= 3) =>
        LET v == ret.val.vertices
            q == ret.val.quads
            p == SrcCCW
            N == SrcN
            BL(k) == v[q[k][1] + 1]
            BR(k) == v[q[k][2] + 1]
            TR(k) == v[q[k][3] + 1]
            TL(k) == v[q[k][4] + 1]
            onEdge(k, j) == XY(BL(k)) = p[j] /\ XY(BR(k)) = p[(j % N) + 1]
        IN /\ Len(q) = N
           /\ \A k \in 1..N :
                 /\ BL(k)[3] = 0 /\ BR(k)[3] = 0
                 /\ TR(k)[3] = args[2] /\ TL(k)[3] = args[2]
                 /\ XY(BL(k)) = XY(TL(k))
                 /\ XY(BR(k)) = XY(TR(k))
                 /\ \E j \in 1..N : onEdge(k, j)
           /\ \A j \in 1..N : Cardinality({k \in 1..N : onEdge(k, j)}) = 1

\* C6, witnessed: the L-shaped hexagon was extruded into six side quads.
C6_Witness ==
    /\ ExtrudeDone
    /\ PointsOf(args[1]) = PointsOf(shapes.ell)
    /\ Len(ret.val.quads) = 6

\* C7: lines holds N bottom edges (i, (i-1) mod N), N top edges
\* (i+N, ((i-1) mod N)+N) and N vertical connectors (i, 2N-1-i); every
\* index is in 0..2N-1 and a connector joins a bottom vertex to the top
\* vertex with the same (x, y).
C7_Lines ==
    (ExtrudeDone /\ SrcN >= 3) =>
        LET v == ret.val.vertices
            l == ret.val.lines
            N == SrcN
        IN /\ Len(l) = 3 * N
           /\ \A i \in 0..(N - 1) :
                 /\ l[i + 1] = <<i, (i - 1) % N>>
                 /\ l[N + i + 1] = <<i + N, ((i - 1) % N) + N>>
                 /\ l[2 * N + i + 1] = <<i, 2 * N - 1 - i>>
           /\ \A k \in DOMAIN l : l[k][1] \in 0..(2 * N - 1) /\ l[k][2] \in 0..(2 * N - 1)
           /\ \A k \in (2 * N + 1)..(3 * N) :
                 /\ XY(v[l[k][1] + 1]) = XY(v[l[k][2] + 1])
                 /\ v[l[k][1] + 1][3] = 0
                 /\ v[l[k][2] + 1][3] = args[2]

\* C7, witnessed: a triangle was extruded into nine lines.
C7_Witness ==
    /\ ExtrudeDone /\ SrcN = 3
    /\ Len(ret.val.lines) = 9

\* C8 as stated: for the empty polygon extrude returns, without raising,
\* empty vertices, lines, bases and quads, and isConvex true.
C8_Original ==
    (ExtrudeDone /\ args[1] = EmptyPolygon) =>
        /\ ret.exc = "none"
        /\ ret.val.vertices = << >>
        /\ ret.val.lines = << >>
        /\ ret.val.bases = << >>
        /\ ret.val.quads = << >>
        /\ ret.val.isConvex = TRUE

\* C8, amended: for the empty polygon extrude returns, without raising,
\* empty vertices, lines and quads, a bases list of two empty index tuples,
\* and isConvex true.
C8_Degenerate ==
    (ExtrudeDone /\ args[1] = EmptyPolygon) =>
        /\ ret.exc = "none"
        /\ ret.val.vertices = << >>
        /\ ret.val.lines = << >>
        /\ ret.val.bases = << << >>, << >> >>
        /\ ret.val.quads = << >>
        /\ ret.val.isConvex = TRUE

\* C8, witnessed: the empty polygon was extruded.
C8_Witness ==
    /\ ExtrudeDone /\ args[1] = EmptyPolygon
    /\ Len(ret.val.vertices) = 0 /\ Len(ret.val.bases) = 2

\* every corner of the ring turns the same way
IsConvexRing(ring) ==
    LET n == Len(ring) - 1
        turns == {orientationIndex(ring[i], ring[(i % n) + 1], ring[((i + 1) % n) + 1]) :
                     i \in 1..n}
    IN Cardinality(turns \ {0}) <= 1

\* C9: isConvex is true exactly when the polygon coincides with its convex
\* hull: true for the square, false for the L-shaped hexagon, whatever the
\* winding and the starting vertex of the input.
C9_Convexity ==
    (ExtrudeDone /\ SrcN >= 3) =>
        /\ ret.val.isConvex = IsConvexRing(args[1])
        /\ PointsOf(args[1]) = PointsOf(shapes.square) => ret.val.isConvex = TRUE
        /\ PointsOf(args[1]) = PointsOf(shapes.ell) => ret.val.isConvex = FALSE

\* C9, witnessed: the L-shaped hexagon, given clockwise and from its second
\* vertex on, was found not convex.
C9_Witness ==
    /\ ExtrudeDone
    /\ PointsOf(args[1]) = PointsOf(shapes.ell)
    /\ SignedArea2(args[1]) < 0
    /\ args[1][1] # shapes.ell[1]
    /\ ret.val.isConvex = FALSE

\* C10: when the raw intersection is a collection, andPolygons returns its
\* polygon member of greatest area, members that are no polygons ignored,
\* and among several of the greatest area the first in the collection.
C10_Largest ==
    (AndPolygonsDone /\ raw.type \in CollectionTypes) =>
        LET g     == raw.geoms
            polys == {i \in DOMAIN g : g[i].type = "Polygon"}
            best  == {i \in polys : \A j \in polys : Area2(g[j].coords) <= Area2(g[i].coords)}
        IN IF polys = {} THEN ret = Return(EmptyPolygon)
           ELSE /\ ret.exc = "none"
                /\ ret.val \in {g[MinOf(best)].coords, reversed(g[MinOf(best)].coords)}

\* C10, witnessed: a collection with two polygons of the same greatest area
\* and a member that is no polygon.
C10_Witness ==
    /\ AndPolygonsDone /\ raw.type = "GeometryCollection"
    /\ \E i, j \in DOMAIN raw.geoms :
          /\ i < j
          /\ raw.geoms[i].type = "Polygon" /\ raw.geoms[j].type = "Polygon"
          /\ Area2(raw.geoms[i].coords) = Area2(raw.geoms[j].coords)
          /\ ret.val \in {raw.geoms[i].coords, reversed(raw.geoms[i].coords)}
    /\ \E i \in DOMAIN raw.geoms : raw.geoms[i].type # "Polygon"

\* the call is andPolygons(P, P): both arguments are rings of one region
SelfIntersection == AndPolygonsDone /\ Cells(args[1]) = Cells(args[2])

\* C11: andPolygons(P, P) returns a polygon whose area is the area of P.
C11_Idempotent ==
    SelfIntersection =>
        /\ ret.exc = "none"
        /\ Area2(ret.val) = Area2(args[1])
        /\ Area2(ret.val) = Area2(args[2])

\* C11, witnessed: the L-shaped hexagon, which is not convex, intersected
\* with itself, once given as the very same ring and once wound the other
\* way round.
C11_Witness ==
    /\ SelfIntersection
    /\ args[1] = get("ell")
    /\ args[2] \in {args[1], reverse(args[1])}
    /\ Area2(ret.val) = 24

\* a set of cells moved so that its lowest leftmost cell is <<0, 0>>
atOrigin(S) == {<<c[1] - LexMin(S)[1], c[2] - LexMin(S)[2]>> : c \in S}

\* the call is andPolygons(P, Q), Q a translated copy of P that overlaps P
TranslatedOverlap ==
    /\ AndPolygonsDone
    /\ Cells(args[1]) \cap Cells(args[2]) # {}
    /\ atOrigin(Cells(args[1])) = atOrigin(Cells(args[2]))

C12_TowerShrinks ==
    /\ Len(tower) = 2
    /\ 0 < Area2(tower[2].polygon)
    /\ Area2(tower[2].polygon) < Area2(tower[1].polygon)

SpacialTransformDone == fn = "spacialTransform" /\ ret # Pending

\* the pose dx = dy = dz = 0, theta = 0: the 4 x 4 identity matrix
identityMatrix == getMatrix(0, 0, 0, 0)

\* the call is spacialTransform(P, identity matrix) for a non-empty P
IdentityCase ==
    /\ SpacialTransformDone
    /\ args[1] # EmptyPolygon
    /\ args[2] = identityMatrix

\* C13: spacialTransform with the identity matrix returns a non-empty
\* polygon as it is or rewound: the same set of vertices, the same area,
\* and the ring reversed only when it was not counter-clockwise.
C13_Identity ==
    IdentityCase =>
        /\ PointsOf(ret.val) = PointsOf(args[1])
        /\ Area2(ret.val) = Area2(args[1])
        /\ ret.val = IF SignedArea2(args[1]) > 0 THEN args[1] ELSE reverse(args[1])

\* C13, witnessed: a clockwise ring of the rectangle comes back reversed,
\* with its corners and its area.
C13_Witness ==
    /\ IdentityCase
    /\ SignedArea2(args[1]) < 0
    /\ PointsOf(args[1]) = PointsOf(shapes["rectangle"])
    /\ ret.val = reverse(args[1])
    /\ Area2(ret.val) = 12

\* where (x, y, 0, 1) times m has its first two components
image(m, p) == << X(p) * m[1][1] + Y(p) * m[2][1] + m[4][1],
                  X(p) * m[1][2] + Y(p) * m[2][2] + m[4][2] >>

\* the matrices that have rows 0, 1 and 3 of columns 0 and 1 as m has them
sameBlock(m) ==
    { n \in { matrixOf(m[1][1], m[1][2], m[2][1], m[2][2], t) : t \in Translations } :
        n[4][1] = m[4][1] /\ n[4][2] = m[4][2] }

\* C14: spacialTransform takes every point (x, y) of the polygon to the
\* first two components of (x, y, 0, 1) times the matrix, the ring as it
\* was or reversed; a matrix that differs only outside rows 0, 1 and 3 of
\* columns 0 and 1, in the z translation for one, gives the same polygon.
C14_Projection ==
    SpacialTransformDone =>
        LET mapped == [i \in 1..Len(args[1]) |-> image(args[2], args[1][i])]
        IN /\ ret.exc = "none"
           /\ ret.val \in {mapped, reverse(mapped)}
           /\ \A n \in sameBlock(args[2]) : spacialTransform(args[1], n) = ret.val

\* C14, witnessed: the triangle moved by (1, -2) with the z translation 2,
\* a third row and last columns that are not the identity's; the same pose
\* with the z translation -1 and the identity's rows and columns is
\* another matrix of the same block.
C14_Witness ==
    /\ SpacialTransformDone
    /\ args[1] = get("triangle")
    /\ args[2][4] = <<1, -2, 2, 2>>
    /\ args[2][3] = <<2, -1, 1, 1>>
    /\ det2(args[2]) = 1
    /\ \E n \in sameBlock(args[2]) : n[4][3] = -1 /\ n[3] = <<0, 0, 1, 0>>
    /\ PointsOf(ret.val) = {image(args[2], p) : p \in PointsOf(args[1])}
    /\ Area2(ret.val) = 12

\* the call is extrude(unit square, 1); the unit square is 2 x 2 on the
\* lattice
SquareExtruded ==
    /\ ExtrudeDone
    /\ PointsOf(args[1]) = PointsOf(shapes.square)
    /\ args[2] = 1

\* the call is andPolygons(unit square, unit square moved by (0.5, 0)):
\* one step to the right on the lattice
SquareHalfOverlap ==
    /\ AndPolygonsDone
    /\ args[1] = get("square")
    /\ Cells(args[2]) = {<<c[1] + 1, c[2]>> : c \in Cells(args[1])}

\* C15: the unit square extruded with depth 1 has 8 vertices, 12 lines and
\* is convex; andPolygons of the unit square and the unit square moved by
\* (0.5, 0) returns a single polygon of 4 vertices and area 0.5 (2 cells).
C15_EndToEnd ==
    /\ SquareExtruded =>
          /\ Len(ret.val.vertices) = 8
          /\ Len(ret.val.lines) = 12
          /\ ret.val.isConvex = TRUE
    /\ SquareHalfOverlap =>
          /\ raw.type = "Polygon"
          /\ ret.exc = "none"
          /\ Len(ret.val) = 5 /\ Cardinality(PointsOf(ret.val)) = 4
          /\ Area2(ret.val) = 4

\* C15, witnessed: the half overlap is the rectangle from (0.5, 0) to (1, 1)
C15_Witness ==
    /\ SquareHalfOverlap
    /\ PointsOf(ret.val) = {<<1, 0>>, <<2, 0>>, <<2, 2>>, <<1, 2>>}

\* C15, its first half: the extruded unit square
C15_Extruded ==
    /\ SquareExtruded
    /\ Len(ret.val.vertices) = 8 /\ Len(ret.val.lines) = 12 /\ ret.val.isConvex

GetDone == fn = "get" /\ ret # Pending

\* C16: get with a name that is no key of the shape data raises (KeyError)
\* to its caller and returns no polygon, of no shape; with a key it returns
\* that shape's polygon.
C16_UnknownName ==
    GetDone =>
        IF args[1] \in allShapes
        THEN ret = Return(get(args[1]))
        ELSE ret.exc = "KeyError" /\ ret # Return(ret.val)

\* C16, witnessed: the name differs from a key in its capital only
C16_Witness ==
    /\ GetDone
    /\ args[1] = "Square"
    /\ ret = Raise("KeyError")

\* the areas of the members of a collection, in its order
areasOf(g) == [k \in DOMAIN g.geoms |-> area2(g.geoms[k])]

\* the first of the greatest of a sequence of areas, or 0 when none is
\* positive
firstGreatest(areas) ==
    LET best == {k \in DOMAIN areas :
                    areas[k] > 0 /\ \A j \in DOMAIN areas : areas[j] <= areas[k]}
    IN  IF best = {} THEN 0 ELSE MinOf(best)

MethodStep(c, m) ==
    fn = c /\ calls'.methods = calls.methods + 1 /\ args'.method = m

C26_Clicked ==
    (fn = "Button" /\ calls.methods > 0) =>
        /\ button.clicked => (args.over /\ ~args.pressed /\ seen.held)
        /\ ~args.over => (~button.pushed /\ ~button.hovering /\ ~button.clicked)

\* C26, witnessed: the button is clicked two updates after the press.
C26_Witness ==
    /\ fn = "Button"
    /\ calls.methods = 3
    /\ button.clicked /\ button.pushed /\ button.hovering
    /\ args.over /\ ~args.pressed /\ seen.held

\* the update that follows an update which saw the mouse button down over
\* the button, and sees it up over the button
Released ==
    /\ calls.methods > 0
    /\ args.over /\ args.pressed
    /\ args'.over /\ ~args'.pressed

\* C27: cycleState is an index of the buttons; an update advances it to the
\* next index, the first after the last, when it sees the mouse button
\* released over the button directly after an update that saw it pressed
\* there, and no other update changes it, however long the cursor stays
\* over the button.
C27_Cycle ==
    /\ [](fn = "CycleButton" =>
             (0 <= button.cycleState /\ button.cycleState < Len(button.buttons)))
    /\ [][MethodStep("CycleButton", "update") =>
             button'.cycleState =
                 IF Released THEN (button.cycleState + 1) % Len(button.buttons)
                 ELSE button.cycleState]_vars

\* C27, witnessed: the cursor is still over a button of three states after
\* a click that advanced it; two of the buttons have been hovered over and
\* none is pushed.
C27_Witness ==
    /\ fn = "CycleButton"
    /\ Len(button.buttons) = 3
    /\ calls.methods = 5
    /\ args.over /\ ~args.pressed /\ seen.held
    /\ Cardinality({k \in 1..3 : button.buttons[k].hovering}) = 2
    /\ \A k \in 1..3 : ~button.buttons[k].pushed

\* C28: an update sets restarted exactly when the progress it adds up
\* exceeds the height of the bar; the progress is never below 0 and never
\* above the height; reset sets it to 0; and the warning is heard at most
\* once between two beginnings of the bar, by reset or by wrapping.
C28_Timer ==
    /\ [](fn = "VerticalTimer" =>
             /\ 0 <= timer.progress /\ timer.progress <= timerHeight
             /\ seen.warnings <= 1)
    /\ [][/\ MethodStep("VerticalTimer", "update") =>
                timer'.restarted = (timer.progress + timerPerTick * args'.dt > timerHeight)
          /\ MethodStep("VerticalTimer", "reset") =>
                (timer'.progress = 0 /\ timer'.restarted = timer.restarted)]_vars

\* C28, witnessed: the bar wrapped in an update that also played the
\* warning, after updates that had played it before.
C28_Witness ==
    /\ fn = "VerticalTimer"
    /\ calls.methods >= 3
    /\ timer.restarted /\ timer.warnSoundPlayed
    /\ seen.warnings = 1
    /\ 4 * timer.progress >= 3 * timerHeight

\* C31: a level whose threshold is not 0 sets play only if the high score
\* its selector read for the prerequisite level, when the level-selection
\* page made it, was at least the threshold; a locked selector never sets
\* play; square and triangle are never locked, and a click on an unlocked
\* selector sets play.
C31_Unlocked ==
    fn = "LevelSelector" =>
        LET thresh == thresholds[args.levelName]
        IN  /\ button.name = args.levelName
            /\ (button.play /\ thresh # << >>) =>
                   args.highscores[thresh[1]] >= thresh[2]
            /\ button.locked => ~button.play
            /\ args.levelName \in {"square", "triangle"} => ~button.locked
            /\ ~button.locked => button.play = button.item.clicked

\* C31, witnessed: a level that needs a score is started, with the high
\* score of its prerequisite exactly at the threshold.
C31_Witness ==
    /\ fn = "LevelSelector"
    /\ calls.methods >= 2
    /\ thresholds[args.levelName] # << >>
    /\ args.highscores[thresholds[args.levelName][1]] = thresholds[args.levelName][2]
    /\ button.play

\* a locked selector under a pressed cursor
C31_LockedPressed ==
    /\ fn = "LevelSelector"
    /\ button.locked /\ button.item.hovering /\ seen.held
    /\ args.highscores[button.reqLevel] = button.threshold - 1

(***************************************************************************)
(* Properties of the game page (under Spec)                                *)
(***************************************************************************)

\* a step of the frame loop that stacks the control block
StackStep == pc = "gamePage" /\ calls'.andPolygons = calls.andPolygons + 1

\* the frame loop is about to start the iteration after a click that
\* stacked a prism with fewer than 3 vertices
AfterEmptyStack == pc = "gamePage" /\ clicked /\ Len(control.vertices) < 3

\* C2 as stated: a stack click whose prism has fewer than 3 vertices sets the
\* game-over flag in the same frame and leaves the score as it was, and the
\* next iteration of the loop enters the game-over screen without a further
\* transform, intersection or extrusion.
C2_Original ==
    [][ /\ (StackStep /\ Len(control'.vertices) < 3) => (gameover' /\ score' = score)
        /\ AfterEmptyStack => (pc' = "gameover" /\ calls' = calls) ]_vars

\* C2, corrected: a stack click whose prism has fewer than 3 vertices sets
\* the game-over flag in the same frame and leaves the score as it was; the
\* next iteration of the loop makes no further transform, intersection or
\* extrusion, and it enters the game-over screen unless it reads QUIT, in
\* which case gamePage returns with running cleared.
C2_GameOverNext ==
    [][ /\ (StackStep /\ Len(control'.vertices) < 3) => (gameover' /\ score' = score)
        /\ AfterEmptyStack =>
              /\ gameover
              /\ calls' = calls
              /\ pc' = "gameover" \/ (pc' = "returned" /\ running' = FALSE) ]_vars

\* The game-over screen is up after a click stacked an empty prism on a
\* tower that earlier clicks had scored for.
C2_Witness ==
    /\ pc = "gameover"
    /\ Len(control.vertices) < 3
    /\ Len(tower) >= 2
    /\ score = Len(tower) - 1 /\ calls.andPolygons = Len(tower)

\* what a step may do to the tower: nothing; drop its oldest layer when it
\* holds more than 7; put one new layer on top of what is left
TowerStep ==
    LET kept == IF Len(tower) > 7 THEN SubSeq(tower, 2, Len(tower)) ELSE tower
    IN  \/ tower' = tower
        \/ pc = "gamePage" /\ tower' = kept
        \/ pc = "gamePage" /\ Len(tower') = Len(kept) + 1
                           /\ SubSeq(tower', 1, Len(kept)) = kept
        \/ pc' = "returned"

\* C17: the tower only grows at its top and only loses its oldest layer
\* (index 0): the layers keep their order and stay as they were stacked; it
\* holds at most 7 layers when it is rendered and at most 8 at any time.
C17_Tower ==
    /\ [](Len(tower) <= 8 /\ stack <= 7)
    /\ [][TowerStep]_vars

\* C17, witnessed: 8 blocks were stacked, the oldest layer has been dropped,
\* and the 7 layers left are not all alike.
C17_Witness ==
    /\ pc = "gamePage"
    /\ calls.andPolygons = 8
    /\ Len(tower) = 7 /\ stack = 7
    /\ tower[1] # tower[7]

\* how many of the events are presses of the left button
RECURSIVE leftClicks(_)
leftClicks(evs) ==
    IF evs = << >> THEN 0
    ELSE (IF Head(evs) = "BUTTON_LEFT" THEN 1 ELSE 0) + leftClicks(Tail(evs))

\* an iteration of the frame loop that ran to its end
FullIteration == pc = "gamePage" /\ pc' = "gamePage"

Drawable(prism) ==
    /\ Len(prism.vertices) >= 3
    /\ count_coordinates(prism.polygon) - 1 >= 3

\* C33: whenever a stack click is processed, the control block and the
\* polygon used as base (the top of the tower, or the tower base while the
\* tower is empty) have at least 3 vertices each: spacialTransform,
\* getMatrix and andPolygons are never given an empty polygon; while the
\* game is not lost the control block and every layer can be drawn.
C33_NoEmptyInput ==
    /\ [][StackStep =>
            LET shaved == shave(tower)
                base   == IF Len(shaved) = 0 THEN towerBase ELSE shaved[Len(shaved)]
            IN  /\ Drawable(control) /\ Drawable(base)
                /\ passed' # << >> ]_vars
    /\ []((pc = "gamePage" /\ ~gameover) =>
             /\ Drawable(control) /\ Drawable(towerBase)
             /\ \A i \in DOMAIN tower : Drawable(tower[i]))

\* C33, witnessed: the second click stacked an empty block on a layer that
\* could be drawn; the game is lost and the loop has not yet gone on.
C33_Witness ==
    /\ pc = "gamePage" /\ clicked /\ gameover
    /\ Len(tower) = 2 /\ calls.spacialTransform = 4
    /\ Drawable(tower[1]) /\ ~Drawable(tower[2])
    /\ control = tower[2]

\* what an iteration may do: call andPolygons and extrude once each or not
\* at all; and when it ran to its end on one or more presses of the left
\* button, it called each once and put one layer on the tower
OneStackPerFrame ==
    /\ calls'.andPolygons - calls.andPolygons \in {0, 1}
    /\ calls'.extrude - calls.extrude \in {0, 1}
    /\ (FullIteration /\ leftClicks(events') >= 1) =>
          /\ calls'.andPolygons = calls.andPolygons + 1
          /\ calls'.extrude = calls.extrude + 1
          /\ Len(tower') = Len(shave(tower)) + 1
    /\ (FullIteration /\ leftClicks(events') = 0) =>
          /\ calls' = calls
          /\ tower' = shave(tower)

\* C18: an iteration of the frame loop calls andPolygons at most once and
\* extrude at most once, however many presses of the left button it reads;
\* several presses in one frame make exactly one stack action.
C18_OneStackPerFrame == [][pc = "gamePage" => OneStackPerFrame]_vars

\* C18, witnessed: the first iteration that stacked had read two presses
C18_Witness ==
    /\ pc = "gamePage"
    /\ events = <<"BUTTON_LEFT", "BUTTON_LEFT">>
    /\ clicked
    /\ calls.andPolygons = 1 /\ calls.extrude = 2
    /\ Len(tower) = 1

\* the frame loop runs and no life is left
LivesOut == pc = "gamePage" /\ lives.num = 0

\* the game-over screen has been entered with the flag set, or gamePage has
\* returned (QUIT, the exit button of the pause menu, or the game-over
\* screen left)
OverOrLeft == (pc = "gameover" /\ gameover) \/ pc = "returned"

\* C19 as stated: once no life is left the game-over flag is set and the
\* game-over screen is entered, unless QUIT or the exit of the pause menu
\* comes first.
C19_Original == LivesOut ~> OverOrLeft

\* C19, amended: once no life is left the game-over flag is set and the
\* game-over screen is entered, unless QUIT or the exit of the pause menu
\* comes first, or the game is in the pause menu for ever or again and
\* again.
C19_GameOverReached == (<>[](pc # "paused")) => (LivesOut ~> OverOrLeft)

\* C19, witnessed: the game-over screen was entered with no life left, on a
\* control block that could still be drawn.
C19_Witness ==
    /\ pc = "gameover" /\ gameover
    /\ lives.num = 0
    /\ Len(control.vertices) >= 3

\* C20 as stated: once no life is left, no step of gamePage is a stack
\* action: no layer is appended to the tower and the control block is not
\* replaced.
C20_Original ==
    [][LivesOut => /\ ~StackStep
                   /\ (pc' = "gamePage" => /\ tower' = shave(tower)
                                           /\ control' = control)]_vars

\* C20, the case: no life is left, the flag is set, and the iteration that
\* set it had read a click and stacked a block that can be drawn; the score
\* has not counted it.
C20_StackedAfterLivesOut ==
    /\ LivesOut /\ gameover
    /\ clicked
    /\ Len(tower) = calls.andPolygons /\ calls.andPolygons >= 1
    /\ control = tower[Len(tower)]
    /\ Len(control.vertices) >= 3
    /\ score < calls.andPolygons

\* the polygon a stack action must come to when it intersects what a frame
\* displays with n layers in the tower: the control block at (x, y) turned
\* by theta as the frame drew it, and under it the newest layer of the
\* tower unturned or, under an empty tower, the base turned by 45 degrees
DisplayedIntersection(x, y, theta, n) ==
    LET shown   == shave(tower)
        below   == IF n = 0
                   THEN spacialTransform(towerBase.polygon,
                            getMatrix(0, 0, -1, 45 - axesAt(n)))
                   ELSE spacialTransform(shown[n].polygon, getMatrix(0, 0, -1, 0))
        falling == spacialTransform(control.polygon,
                       getMatrix(x, y, 0, theta - axesAt(n)))
    IN  andPolygons(below, falling).val

\* C21: a stack action intersects the polygons in the poses the frame
\* displays: the control polygon at the frame's (controlX, controlY,
\* controlTheta), the base as the newest layer unturned or, with an empty
\* tower, the original shape turned by 45 degrees.
C21_DisplayedPoses ==
    [][StackStep =>
          /\ stack' = Len(shave(tower))
          /\ \E x \in {controlX'}, y \in {controlY'}, theta \in {controlTheta'},
                n \in {stack'} :
                \E shown \in {DisplayedIntersection(x, y, theta, n)} :
                    control'.polygon = shown
          /\ tower'[Len(tower')] = control']_vars

\* C21, witnessed: a block stacked off centre on a layer of the tower is
\* the part of that layer that the displayed control block covered.
C21_Witness ==
    /\ pc = "gamePage" /\ clicked
    /\ Len(tower) >= 2 /\ stack = Len(tower) - 1
    /\ controlX # 0
    /\ 0 < Area2(tower[Len(tower)].polygon)
    /\ Area2(tower[Len(tower)].polygon) < Area2(tower[Len(tower) - 1].polygon)
    /\ control = tower[Len(tower)]

\* the product translate(dx, dy, dz) * rotate(theta about z), and no factor
\* before it
translateRotate(dx, dy, dz, theta) ==
    (IF dx = 0 /\ dy = 0 /\ dz = 0 THEN << >>
     ELSE <<[op |-> "translate", angle |-> 0, x |-> dx, y |-> dy, z |-> dz]>>)
    \o (IF theta % 360 = 0 THEN << >>
        ELSE <<[op |-> "rotate", angle |-> theta % 360, x |-> 0, y |-> 0, z |-> 1]>>)

\* C22: the two matrices a stack step hands to spacialTransform are read
\* from a modelview matrix without a tilt of the world, whatever the frame
\* drawn before left there: the one of the base is translate(0, 0, -1)
\* followed by the base's turn about z, the one of the control block is
\* translate(controlX, controlY, 0) followed by the turn by controlTheta
\* about z; and the calls of getMatrix leave the modelview matrix as it was
\* set up for them, the identity, over the matrices saved before.
C22_FlatMatrices ==
    [][StackStep =>
          /\ passed' = << translateRotate(0, 0, -1, IF stack' = 0 THEN 45 ELSE 0),
                          translateRotate(controlX', controlY', 0, controlTheta') >>
          /\ modelview'.top = << >>
          /\ modelview'.saved = modelview.saved]_vars

C22_Witness ==
    /\ pc = "gamePage" /\ clicked
    /\ Len(passed) = 2
    /\ passed[1] = translateRotate(0, 0, -1, 45)
    /\ passed[2] = translateRotate(controlX, controlY, 0, 45)
    /\ controlX # 0
    /\ modelview = glInit

\* C25: while gamePage runs, the score goes up by exactly one in an
\* iteration that processes a stack click and ends with the game not lost,
\* and is left alone by every other step; the click that loses the game
\* does not score.
C25_Score ==
    [][pc' # "returned" =>
          score' = IF StackStep /\ ~gameover' THEN score + 1 ELSE score]_vars

\* C25, witnessed: a click that scored, then the click that lost the game.
C25_Witness ==
    /\ pc = "gamePage" /\ clicked /\ gameover
    /\ calls.andPolygons = 2
    /\ score = 1

\* the timer bar runs over in the update of the frame to come
TimerRunsOut == timer.progress + timerPerTick * dt > timerHeight

\* C34 as stated: no life is removed in a frame in which a stack click was
\* processed; a life is removed only in a frame whose timer update found a
\* full timer period elapsed since the last reset.
C34_Original ==
    [][ /\ StackStep => lives' = lives
        /\ (FullIteration /\ lives' # lives) => TimerRunsOut ]_vars

\* C34, the case: the timer ran out in the frame of a click; the click
\* stacked its block and reset the bar, and the frame took a life all the
\* same.
C34_LifeLostOnClick ==
    /\ pc = "gamePage" /\ clicked
    /\ calls.andPolygons >= 1
    /\ control = tower[Len(tower)]
    /\ timer.restarted /\ timer.progress = 0
    /\ lives.num = lives.max - 1

\* what the code does about lives: a frame takes one, if one is left,
\* exactly when its timer update ran the bar over, click or no click
LifeTakenOnRunOut ==
    [][ FullIteration =>
          lives' = IF TimerRunsOut THEN killLife(lives) ELSE lives ]_vars

(***************************************************************************)
(* Properties of the pages (under AppSpec)                                 *)
(***************************************************************************)

\* the ways from page to page
PageEdges ==
    { <<0, 1>>, <<0, 3>>, <<0, 4>>, <<0, 5>>, <<1, 0>>, <<1, 2>>,
      <<2, 0>>, <<3, 0>>, <<4, 0>>, <<5, 0>> }

\* a page handler returns, and not because of QUIT
ButtonReturn == pc # "none" /\ pc' = "returned" /\ running'

\* C29: pageNum is one of 0..5 and changes only from the menu (0) to the
\* levels (1), settings (3), tutorial (4) or credits (5), from the levels to
\* the menu or the game (2), and from the game, settings, tutorial or
\* credits to the menu; a handler left by a button goes one of these ways,
\* or from the game to the game again on retry.
C29_Pages ==
    /\ [](pageNum \in 0..5)
    /\ [][/\ pageNum' # pageNum => <<pageNum, pageNum'>> \in PageEdges
          /\ ButtonReturn => <<pageNum, pageNum'>> \in PageEdges \cup {<<2, 2>>}]_vars

\* C29, witnessed: the game is being played again after a retry on the
\* game-over screen of a game that set a high score.
C29_Witness ==
    /\ pc = "gamePage"
    /\ pageNum = 2 /\ lastPage = 2
    /\ storedHigh > 0

\* C30: when a page handler returns by one of its buttons, lastPage is the
\* number of the page that handler shows.
C30_LastPage == [][ButtonReturn => lastPage' = pageNum]_vars

\* C30, witnessed: back on the menu from the credits, after a game in which
\* a block was stacked.
C30_Witness ==
    /\ pc = "returned" /\ running
    /\ pageNum = 0 /\ lastPage = 5
    /\ calls # << >> /\ calls.andPolygons >= 1

(***************************************************************************)
(* Properties of the block colors (under ColorSpec)                        *)
(***************************************************************************)

\* C35: every frame draws each layer of the tower in the color its own frame
\* drew the control block in when it was stacked, also after older layers
\* were dropped from the bottom of the tower and after the colors have gone
\* round; the control block is drawn in the color of colIndex, which stays
\* within 0..len(blockColors)-1.
C35_LayerColors ==
    /\ colIndex \in 0..(blockColorsLen - 1)
    /\ pc \in {"gamePage", "paused", "gameover"} =>
          /\ Len(colors.placed) = Len(tower)
          /\ Len(colors.layers) = stack
          /\ colors.layers = SubSeq(colors.placed, 1, stack)
          /\ \A i \in DOMAIN colors.placed : colors.placed[i] \in 0..(blockColorsLen - 1)
          /\ Len(tower) - stack \in {0, 1}
          /\ Len(tower) > stack => colors.placed[Len(tower)] = colors.control
          /\ colIndex = (colors.control + Len(tower) - stack) % blockColorsLen

\* C35, witnessed: the colors have gone round; a frame draws seven layers,
\* the lower ones in the last colors of the list and the upper ones in the
\* first, after twelve layers were dropped.
C35_Witness ==
    /\ pc = "gamePage" /\ ~clicked
    /\ calls.andPolygons = 19
    /\ stack = 7
    /\ colors.layers = <<12, 13, 14, 15, 16, 0, 1>>
    /\ colors.control = 2

====
